---- MODULE Spec2Model ----
(***************************************************************************)
(* Model of the data-analysis dashboard's persistence layer                *)
(* (utils/database.py) and data processor (utils/data_processor.py).       *)
(*                                                                         *)
(* Specifications over one set of variables:                               *)
(*   SpecPool  - concurrent callers going through get_db_connection        *)
(*   SpecDf    - the dataframe store, one call at a time                   *)
(*   SpecState - the analysis-state store, one call at a time              *)
(*   SpecSaves - analysis-state saves and loads that do not fail           *)
(*   SpecProc  - the data_processor functions applied to bounded frames    *)
(***************************************************************************)
EXTENDS Integers, Sequences, FiniteSets, TLC

\* ------------------------------------------------------------------ bounds
\* DatabasePool.__init__(max_connections = 5), used by db_pool = DatabasePool()
MaxConnections == 5

\* concurrent callers of the database layer (streamlit runs one thread per session)
NumCallers == 6

\* rows the analysis_state table may grow to
MaxStateRows == 2

Callers == 1..NumCallers
Conns == 1..MaxConnections
NoConn == 0

VARIABLES
    pool,       \* db_pool.pool: the queue.Queue of idle connections, head first
    held,       \* per caller: the local `conn` of get_db_connection (NoConn = None)
    pc,         \* per caller: "idle" | "get" (inside pool.get()) | "body" (inside the with-block)
    lastExit,   \* how the most recently left with-block was left ("none" before the first)
    db,         \* the committed content of data.db
    pending,    \* per connection: its open write transaction, or NoTxn
    last,       \* the most recent database-layer call: its arguments and what it returned
    frame,      \* st.session_state['df']: the frame the preprocessing tab works on
    calls,      \* the data_processor calls made so far: arguments and results
    session     \* st.session_state of main.py, the clock and main()'s position

poolVars == <<pool, held, pc, lastExit>>
dbVars == <<db, pending, last>>
procVars == <<frame, calls, session>>

vars == <<pool, held, pc, lastExit, db, pending, last, frame, calls, session>>

\* ------------------------------------------------------- DatabasePool
\* queue.Queue(maxsize): put blocks while the queue is full, get while it is empty
QueueFull(q) == Len(q) >= MaxConnections
QueueEmpty(q) == Len(q) = 0

\* DatabasePool.__init__: max_connections connections are put into the queue
NewPool == [i \in 1..MaxConnections |-> i]

\* (mutant) get_connection that leaves the connection in the queue
GetConnection_Peek(q) == [conn |-> Head(q), pool |-> q]

\* DatabasePool.get_connection: self.pool.get() takes the head of the queue
GetConnection(q) == [conn |-> Head(q), pool |-> Tail(q)]

\* (mutant) return_connection that loses the connection
ReturnConnection_Drop(q, conn) == q

\* DatabasePool.return_connection: self.pool.put(connection) appends at the tail
ReturnConnection(q, conn) == Append(q, conn)

\* (mutant) a release written after the yield instead of in a finally clause
FinallyReturns_NotOnRaise(conn, exitKind) == conn # NoConn /\ exitKind # "raise"

\* get_db_connection's finally clause: `if conn: db_pool.return_connection(conn)`.
\* It runs however the with-block is left: "normal", "return" or "raise".
FinallyReturns(conn, exitKind) == conn # NoConn

ExitKinds == {"normal", "return", "raise"}

\* ------------------------------------------------------- dataframes
\* A pandas DataFrame: column names, one dtype per column, the row labels
\* (index) and the rows; isNone marks Python's None.  A cell is [k, hi, v, d]:
\*   k = "int" | "float": the number (hi * 2^53 + v) / d
\*   k = "istr" | "fstr": the text of that number as str(int) / str(float) writes it
\*   k = "text": another text, v its code;  k = "null": NaN or None
Cell(k, v) == [k |-> k, hi |-> 0, v |-> v, d |-> 1]
\* the integer 2^53 + v, beyond the integers a float64 holds exactly
BigInt(v) == [k |-> "int", hi |-> 1, v |-> v, d |-> 1]
NullCell == Cell("null", 0)
IsNull(cell) == cell.k = "null"

MkFrame(cols, dts, idx, rws) ==
    [isNone |-> FALSE, columns |-> cols, dtypes |-> dts, index |-> idx, rows |-> rws]
NoneFrame ==
    [isNone |-> TRUE, columns |-> <<>>, dtypes |-> <<>>, index |-> <<>>, rows |-> <<>>]

\* DataFrame.empty: any axis of length 0
DfEmpty(df) == Len(df.columns) = 0 \/ Len(df.rows) = 0

\* the frames handed to the database layer
FrameA == MkFrame(<<"x">>, <<"int64">>, <<0>>, << <<Cell("int", 1)>> >>)
FrameB == MkFrame(<<"x", "y">>, <<"float64", "category">>, <<0, 2>>,
                  << <<Cell("float", 2), Cell("text", 1)>>, <<NullCell, Cell("text", 2)>> >>)
FrameNoRows == MkFrame(<<"x">>, <<"int64">>, <<>>, <<>>)
DbFrames == {FrameA, FrameB, FrameNoRows, NoneFrame}

\* ------------------------------------------------------- the SQLite file data.db
TableNames == {"current_data"}
Sources == {"test_data", "file_upload"}
Components == {"main_app", "other"}

\* a stored user table (written by DataFrame.to_sql, read by pd.read_sql)
NoTable == [exists |-> FALSE, columns |-> <<>>, types |-> <<>>, rows |-> <<>>]
\* a row of metadata(table_name PRIMARY KEY, last_update, source)
NoMeta == [exists |-> FALSE, last_update |-> [iso |-> 0], source |-> ""]

\* datetime.isoformat() / datetime.fromisoformat(): text and back
Isoformat(t) == [iso |-> t]
FromIsoformat(s) == s.iso

\* json.dumps / json.loads of a state dict.  A dict is a sequence of items
\* [key |-> [t, s], val]: t = "str" | "int" is the key's Python type and s its
\* text.  JSON object keys are always strings.
JsonDumps(d) == [i \in DOMAIN d |-> [key |-> d[i].key.s, val |-> d[i].val]]
JsonLoads(j) == [i \in DOMAIN j |-> [key |-> [t |-> "str", s |-> j[i].key], val |-> j[i].val]]

EmptyDict == <<>>
TabDict(n) == << [key |-> [t |-> "str", s |-> "active_tab"], val |-> n] >>
StateDicts == {TabDict(0), TabDict(1)}

\* the committed content of data.db
EmptyDb ==
    [tables |-> [t \in TableNames |-> NoTable],
     metaT  |-> FALSE,                              \* table metadata exists
     meta   |-> [t \in TableNames |-> NoMeta],
     stateT |-> FALSE,                              \* table analysis_state exists
     states |-> <<>>]                               \* its rows, in rowid order

\* pandas' dtype -> SQLite column type (to_sql) and back (read_sql)
SqlType(dtype) ==
    CASE dtype = "int64" -> "INTEGER"
      [] dtype = "float64" -> "REAL"
      [] OTHER -> "TEXT"
DtypeOfSql(ty) ==
    CASE ty = "INTEGER" -> "int64"
      [] ty = "REAL" -> "float64"
      [] OTHER -> "object"

HasDuplicates(seq) == \E i, j \in DOMAIN seq : i < j /\ seq[i] = seq[j]

\* DataFrame.to_sql(..., if_exists='replace', index=False): the index is not stored
ToSqlTable(df) ==
    [exists |-> TRUE, columns |-> df.columns,
     types |-> [i \in DOMAIN df.dtypes |-> SqlType(df.dtypes[i])], rows |-> df.rows]
\* pd.read_sql('SELECT * FROM t'): a fresh RangeIndex, dtypes from the column types
ReadSqlTable(tb) ==
    MkFrame(tb.columns, [i \in DOMAIN tb.types |-> DtypeOfSql(tb.types[i])],
            [i \in DOMAIN tb.rows |-> i - 1], tb.rows)

\* ------------------------------------------------------- connections and transactions
\* A session is what one connection works on during a call: db is the committed
\* content, pend the connection's open write transaction (copy: its working
\* copy of the content) or NoTxn, locked says another connection holds the
\* write lock.
NoTxn == [open |-> FALSE, copy |-> <<>>]
OpenTxn(d) == [open |-> TRUE, copy |-> d]

\* what the connection reads
Cur(s) == IF s.pend.open THEN s.pend.copy ELSE s.db

\* CREATE / DROP: sqlite3 opens no transaction for DDL; outside a transaction
\* the statement is committed at once, inside one it joins it
Ddl(s, d) == IF s.pend.open THEN [s EXCEPT !.pend = OpenTxn(d)] ELSE [s EXCEPT !.db = d]
\* INSERT / DELETE: sqlite3 issues BEGIN first; the write stays uncommitted
Dml(s, d) == [s EXCEPT !.pend = OpenTxn(d)]
\* conn.commit()
Commit(s) == IF s.pend.open THEN [s EXCEPT !.db = s.pend.copy, !.pend = NoTxn] ELSE s
\* conn.rollback()
Rollback(s) == [s EXCEPT !.pend = NoTxn]

\* ------------------------------------------------------- SQL statements
\* Each statement yields [ok, s]: ok = FALSE when SQLite raises (no such
\* table, or "database is locked" because another connection holds the
\* write lock); s is the session afterwards.
StFail(s) == [ok |-> FALSE, s |-> s]
StOk(s) == [ok |-> TRUE, s |-> s]

\* CREATE TABLE IF NOT EXISTS metadata (...)
CreateMetadata(s) ==
    IF Cur(s).metaT THEN StOk(s)
    ELSE IF s.locked THEN StFail(s)
    ELSE StOk(Ddl(s, [Cur(s) EXCEPT !.metaT = TRUE]))

\* CREATE TABLE IF NOT EXISTS analysis_state (id INTEGER PRIMARY KEY, component_name, ...)
CreateAnalysisState(s) ==
    IF Cur(s).stateT THEN StOk(s)
    ELSE IF s.locked THEN StFail(s)
    ELSE StOk(Ddl(s, [Cur(s) EXCEPT !.stateT = TRUE]))

\* INSERT OR REPLACE INTO analysis_state (component_name, state_data, last_update):
\* the only key is id, which SQLite assigns (largest rowid + 1), so no row conflicts
InsertAnalysisState(s, comp, json) ==
    IF ~Cur(s).stateT \/ s.locked THEN StFail(s)
    ELSE StOk(Dml(s, [Cur(s) EXCEPT !.states =
            Append(@, [id |-> Len(@) + 1, component_name |-> comp, state_data |-> json])]))

\* SELECT state_data FROM analysis_state WHERE component_name = ?  (table scan, rowid order)
SelectAnalysisState(d, comp) ==
    LET hits == {i \in DOMAIN d.states : d.states[i].component_name = comp}
    IN  IF hits = {} THEN <<>>
        ELSE << d.states[CHOOSE i \in hits : \A j \in hits : i <= j].state_data >>

\* DROP TABLE IF EXISTS t
DropTable(s, t) ==
    IF ~Cur(s).tables[t].exists THEN StOk(s)
    ELSE IF s.locked THEN StFail(s)
    ELSE StOk(Ddl(s, [Cur(s) EXCEPT !.tables[t] = NoTable]))

\* DELETE FROM metadata WHERE table_name = ?
DeleteMetadata(s, t) ==
    IF ~Cur(s).metaT \/ s.locked THEN StFail(s)
    ELSE StOk(Dml(s, [Cur(s) EXCEPT !.meta[t] = NoMeta]))

\* INSERT OR REPLACE INTO metadata (table_name, last_update, source): table_name is the key
InsertMetadata(s, t, stamp, source) ==
    IF ~Cur(s).metaT \/ s.locked THEN StFail(s)
    ELSE StOk(Dml(s, [Cur(s) EXCEPT !.meta[t] =
            [exists |-> TRUE, last_update |-> stamp, source |-> source]]))

\* (mutant) to_sql that leaves an existing table as it is
ToSql_KeepExisting(s, df, t, f) ==
    IF f \in 1..3 \/ s.locked \/ HasDuplicates(df.columns) THEN StFail(Rollback(s))
    ELSE IF Cur(s).tables[t].exists THEN StOk(Commit(s))
    ELSE StOk(Commit(Dml(s, [Cur(s) EXCEPT !.tables[t] = ToSqlTable(df)])))

\* df.to_sql(t, conn, if_exists='replace', index=False).  pandas drops an
\* existing table, creates the new one and commits, inserts the rows and
\* commits; on an error it rolls the connection back and re-raises.
\* f: 0 = no outside failure, 1 = before any write, 2 = at CREATE, 3 = at INSERT.
ToSql(s, df, t, f) ==
    LET dropped == IF Cur(s).tables[t].exists
                   THEN Ddl(s, [Cur(s) EXCEPT !.tables[t] = NoTable]) ELSE s
        created == Commit(Ddl(dropped, [Cur(dropped) EXCEPT
                       !.tables[t] = [ToSqlTable(df) EXCEPT !.rows = <<>>]]))
        inserted == Commit(Dml(created, [Cur(created) EXCEPT !.tables[t] = ToSqlTable(df)]))
    IN  IF f = 1 \/ s.locked THEN StFail(Rollback(s))
        ELSE IF f = 2 \/ HasDuplicates(df.columns) THEN StFail(Rollback(dropped))
        ELSE IF f = 3 THEN StFail(Rollback(created))
        ELSE StOk(inserted)

\* ------------------------------------------------------- return values
\* What a call hands back: kind is "True" | "False" | "None" | "frame" | "info" |
\* "state" | "datetime" | "rows" | "raise" (an exception leaves the function).
NoInfo == [rows |-> 0, last_update |-> [iso |-> 0], source |-> ""]
Ret(kind) ==
    [kind |-> kind, frame |-> NoneFrame, info |-> NoInfo, state |-> EmptyDict,
     time |-> 0, fetched |-> <<>>]
\* [s: the session afterwards, ret: the return value, dbRaised: the database operation raised]
Outcome(s, ret, dbRaised) == [s |-> s, ret |-> ret, dbRaised |-> dbRaised]

\* database.py imports sqlite3, pandas, streamlit, datetime, json, os, contextlib,
\* typing and queue, but not logging: `logging.error(...)` raises NameError
LoggingImported == FALSE
\* an except handler that calls logging.error(...) before returning its sentinel
AfterLoggingError(sentinel) == IF LoggingImported THEN Ret(sentinel) ELSE Ret("raise")

\* ------------------------------------------------------- database-layer functions
\* Each is the function's body run on session s; `fail` names the statement at
\* which the environment makes SQLite (or the OS) raise, 0 for none.

\* cursor.fetchall() of SELECT state_data FROM analysis_state WHERE component_name = ?
FetchAllStates(d, comp) ==
    LET hits == SelectSeq(d.states, LAMBDA r : r.component_name = comp)
    IN  [i \in DOMAIN hits |-> hits[i].state_data]

\* execute_query(query, params, fetch); the queries modelled are an INSERT into
\* and a SELECT from analysis_state
ExecuteQuery(s, query, comp, json, fetch, fail) ==
    LET st == IF fail = 1 THEN StFail(s)
              ELSE IF query = "INSERT" THEN InsertAnalysisState(s, comp, json)
              ELSE IF Cur(s).stateT THEN StOk(s) ELSE StFail(s)
        rows == IF query = "SELECT" THEN FetchAllStates(Cur(s), comp) ELSE <<>>
    IN  IF ~st.ok THEN Outcome(st.s, AfterLoggingError("None"), TRUE)
        ELSE IF fetch THEN Outcome(st.s, [Ret("rows") EXCEPT !.fetched = rows], FALSE)
        ELSE IF fail = 2 THEN Outcome(st.s, AfterLoggingError("None"), TRUE)
        ELSE Outcome(Commit(st.s), Ret("True"), FALSE)

\* init_db()
InitDb(s, fail) ==
    LET st1 == IF fail = 1 THEN StFail(s) ELSE CreateMetadata(s)
        st2 == IF fail = 2 THEN StFail(st1.s) ELSE CreateAnalysisState(st1.s)
    IN  IF ~st1.ok THEN Outcome(st1.s, Ret("False"), TRUE)
        ELSE IF ~st2.ok THEN Outcome(st2.s, Ret("False"), TRUE)
        ELSE IF fail = 3 THEN Outcome(st2.s, Ret("False"), TRUE)
        ELSE Outcome(Commit(st2.s), Ret("True"), FALSE)

\* save_analysis_state(component_name, state_data)
SaveAnalysisState(s, comp, data, fail) ==
    LET st == IF fail = 1 THEN StFail(s) ELSE InsertAnalysisState(s, comp, JsonDumps(data))
    IN  IF ~st.ok THEN Outcome(st.s, Ret("False"), TRUE)
        ELSE IF fail = 2 THEN Outcome(st.s, Ret("False"), TRUE)
        ELSE Outcome(Commit(st.s), Ret("True"), FALSE)

\* load_analysis_state(component_name)
LoadAnalysisState(s, comp, fail) ==
    LET result == SelectAnalysisState(Cur(s), comp)
    IN  IF fail = 1 \/ ~Cur(s).stateT THEN Outcome(s, [Ret("state") EXCEPT !.state = EmptyDict], TRUE)
        ELSE IF result # <<>>
             THEN Outcome(s, [Ret("state") EXCEPT !.state = JsonLoads(result[1])], FALSE)
             ELSE Outcome(s, [Ret("state") EXCEPT !.state = EmptyDict], FALSE)

\* save_dataframe(df, table_name, source); stamp is datetime.now().
\* fail: 1..3 inside to_sql, 4 at the INSERT into metadata, 5 at commit
SaveDataframe(s, df, t, source, stamp, fail) ==
    LET st1 == ToSql(s, df, t, IF fail \in 1..3 THEN fail ELSE 0)
        st2 == IF fail = 4 THEN StFail(st1.s)
               ELSE InsertMetadata(st1.s, t, Isoformat(stamp), source)
    IN  IF df.isNone \/ DfEmpty(df) THEN Outcome(s, AfterLoggingError("False"), FALSE)
        ELSE IF ~st1.ok THEN Outcome(st1.s, AfterLoggingError("False"), TRUE)
        ELSE IF ~st2.ok THEN Outcome(st2.s, AfterLoggingError("False"), TRUE)
        ELSE IF fail = 5 THEN Outcome(st2.s, AfterLoggingError("False"), TRUE)
        ELSE Outcome(Commit(st2.s), Ret("True"), FALSE)

\* load_dataframe(table_name)
LoadDataframe(s, t, fail) ==
    IF fail = 1 \/ ~Cur(s).tables[t].exists THEN Outcome(s, Ret("None"), TRUE)
    ELSE Outcome(s, [Ret("frame") EXCEPT !.frame = ReadSqlTable(Cur(s).tables[t])], FALSE)

\* (mutant) delete_dataframe that drops the table and leaves its metadata row
DeleteDataframe_KeepsMetadata(s, t, fail) ==
    LET st1 == IF fail = 1 THEN StFail(s) ELSE DropTable(s, t)
    IN  IF ~st1.ok THEN Outcome(st1.s, Ret("False"), TRUE)
        ELSE IF fail \in 2..3 THEN Outcome(st1.s, Ret("False"), TRUE)
        ELSE Outcome(Commit(st1.s), Ret("True"), FALSE)

\* delete_dataframe(table_name)
DeleteDataframe(s, t, fail) ==
    LET st1 == IF fail = 1 THEN StFail(s) ELSE DropTable(s, t)
        st2 == IF fail = 2 THEN StFail(st1.s) ELSE DeleteMetadata(st1.s, t)
    IN  IF ~st1.ok THEN Outcome(st1.s, Ret("False"), TRUE)
        ELSE IF ~st2.ok THEN Outcome(st2.s, Ret("False"), TRUE)
        ELSE IF fail = 3 THEN Outcome(st2.s, Ret("False"), TRUE)
        ELSE Outcome(Commit(st2.s), Ret("True"), FALSE)

\* get_table_info(table_name); fail: 1 sqlite_master query, 2 COUNT(*), 3 os.path.getsize,
\* 4 metadata query.  The 'size' entry (the file size in MB) is not modelled.
GetTableInfo(s, t, fail) ==
    LET d == Cur(s)
    IN  IF fail = 1 THEN Outcome(s, Ret("None"), TRUE)
        ELSE IF ~d.tables[t].exists THEN Outcome(s, Ret("None"), FALSE)
        ELSE IF fail \in 2..4 \/ ~d.metaT THEN Outcome(s, Ret("None"), TRUE)
        ELSE IF d.meta[t].exists
             THEN Outcome(s, [Ret("info") EXCEPT !.info =
                     [rows |-> Len(d.tables[t].rows),
                      last_update |-> d.meta[t].last_update,
                      source |-> d.meta[t].source]], FALSE)
             ELSE Outcome(s, Ret("None"), FALSE)

\* get_last_update(table_name)
GetLastUpdate(s, t, fail) ==
    LET d == Cur(s)
    IN  IF fail = 1 \/ ~d.metaT THEN Outcome(s, Ret("None"), TRUE)
        ELSE IF d.meta[t].exists
             THEN Outcome(s, [Ret("datetime") EXCEPT !.time = FromIsoformat(d.meta[t].last_update)], FALSE)
             ELSE Outcome(s, Ret("None"), FALSE)

\* ------------------------------------------------------- one call at a time
\* `last` is the most recent database-layer call.  kind: what it returned (see
\* Ret); ok: it returned True; dbRaised: the database operation raised.  The
\* arguments are kept for a writing call that returned True (existed: the table
\* it names was there before the call); a reading call leaves only op = "read".
NoCall ==
    [op |-> "none", ok |-> FALSE, kind |-> "None", dbRaised |-> FALSE,
     t |-> "", comp |-> "", data |-> EmptyDict,
     df |-> NoneFrame, source |-> "", stamp |-> 0, existed |-> FALSE]
ReadCall == [NoCall EXCEPT !.op = "read"]
WriteCall(op, o, args) ==
    IF o.ret.kind = "True" THEN [args EXCEPT !.op = op, !.ok = TRUE, !.kind = "True"]
    ELSE [NoCall EXCEPT !.op = op, !.kind = o.ret.kind, !.dbRaised = o.dbRaised]

InitDbVars ==
    /\ db = EmptyDb
    /\ pending = [c \in Conns |-> NoTxn]
    /\ last = NoCall

\* the session of connection conn
Session(conn) ==
    [db |-> db, pend |-> pending[conn],
     locked |-> \E o \in Conns \ {conn} : pending[o].open]

\* `with get_db_connection() as conn:` around a function body: the head of the
\* queue is taken, the body runs, the finally clause puts it back at the tail
ThroughConnection(o, rec) ==
    LET g == GetConnection(pool)
    IN  /\ db' = o.s.db
        /\ pending' = [pending EXCEPT ![g.conn] = o.s.pend]
        /\ pool' = IF FinallyReturns(g.conn, "normal")
                   THEN ReturnConnection(g.pool, g.conn) ELSE g.pool
        /\ last' = rec
        /\ UNCHANGED <<held, pc, lastExit>>

\* a database-layer call made outside main(): the session is not touched
WithConnection(o, rec) ==
    /\ ThroughConnection(o, rec)
    /\ UNCHANGED procVars

CallExecuteQuery(query, comp, data, fetch, fail) ==
    /\ ~QueueEmpty(pool)
    /\ query = "INSERT" => Len(Cur(Session(Head(pool))).states) < MaxStateRows
    /\ LET o == ExecuteQuery(Session(Head(pool)), query, comp, JsonDumps(data), fetch, fail)
       IN  WithConnection(o, IF query = "SELECT" THEN ReadCall
                             ELSE WriteCall("execute_query", o,
                                     [NoCall EXCEPT !.comp = comp, !.data = data]))

CallInitDb(fail) ==
    /\ ~QueueEmpty(pool)
    /\ LET o == InitDb(Session(Head(pool)), fail)
       IN  WithConnection(o, WriteCall("init_db", o, NoCall))

CallSaveAnalysisState(comp, data, fail) ==
    /\ ~QueueEmpty(pool)
    /\ Len(Cur(Session(Head(pool))).states) < MaxStateRows
    /\ LET o == SaveAnalysisState(Session(Head(pool)), comp, data, fail)
       IN  WithConnection(o, WriteCall("save_analysis_state", o,
                                 [NoCall EXCEPT !.comp = comp, !.data = data]))

CallLoadAnalysisState(comp, fail) ==
    /\ ~QueueEmpty(pool)
    /\ LET o == LoadAnalysisState(Session(Head(pool)), comp, fail)
       IN  WithConnection(o, ReadCall)

\* save_dataframe leaves before the with-block for None or an empty frame
CallSaveDataframe(df, t, source, stamp, fail) ==
    /\ ~QueueEmpty(pool)
    /\ LET o == SaveDataframe(Session(Head(pool)), df, t, source, stamp, fail)
           rec == WriteCall("save_dataframe", o,
                      [NoCall EXCEPT !.t = t, !.df = df, !.source = source, !.stamp = stamp,
                                     !.existed = Cur(Session(Head(pool))).tables[t].exists])
       IN  IF df.isNone \/ DfEmpty(df)
           THEN /\ last' = rec
                /\ UNCHANGED <<db, pending, poolVars, procVars>>
           ELSE WithConnection(o, rec)

CallLoadDataframe(t, fail) ==
    /\ ~QueueEmpty(pool)
    /\ LET o == LoadDataframe(Session(Head(pool)), t, fail)
       IN  WithConnection(o, ReadCall)

CallDeleteDataframe(t, fail) ==
    /\ ~QueueEmpty(pool)
    /\ LET o == DeleteDataframe(Session(Head(pool)), t, fail)
       IN  WithConnection(o, WriteCall("delete_dataframe", o,
                                 [NoCall EXCEPT !.t = t,
                                     !.existed = Cur(Session(Head(pool))).tables[t].exists]))

CallGetTableInfo(t, fail) ==
    /\ ~QueueEmpty(pool)
    /\ LET o == GetTableInfo(Session(Head(pool)), t, fail)
       IN  WithConnection(o, ReadCall)

CallGetLastUpdate(t, fail) ==
    /\ ~QueueEmpty(pool)
    /\ LET o == GetLastUpdate(Session(Head(pool)), t, fail)
       IN  WithConnection(o, ReadCall)

\* datetime.now() as read by save_dataframe: an earlier and a later instant
Stamps == {0, 1}
\* the statements of save_dataframe the environment can fail: none are reached
\* for None or an empty frame
SaveFailures(df) == IF df.isNone \/ DfEmpty(df) THEN {0} ELSE 0..5

\* the dataframe store: init_db and the functions on user tables and metadata
NextDf ==
    \/ \E f \in 0..3 : CallInitDb(f)
    \/ \E df \in DbFrames, t \in TableNames, src \in Sources, st \in Stamps :
          \E f \in SaveFailures(df) : CallSaveDataframe(df, t, src, st, f)
    \/ \E t \in TableNames, f \in 0..1 : CallLoadDataframe(t, f)
    \/ \E t \in TableNames, f \in 0..3 : CallDeleteDataframe(t, f)
    \/ \E t \in TableNames, f \in 0..4 : CallGetTableInfo(t, f)
    \/ \E t \in TableNames, f \in 0..1 : CallGetLastUpdate(t, f)

\* the analysis-state store: init_db and the functions on analysis_state
NextState ==
    \/ \E f \in 0..3 : CallInitDb(f)
    \/ \E q \in {"INSERT", "SELECT"}, c \in Components, d \in StateDicts,
          fetch \in BOOLEAN, f \in 0..2 : CallExecuteQuery(q, c, d, fetch, f)
    \/ \E c \in Components, d \in StateDicts, f \in 0..2 : CallSaveAnalysisState(c, d, f)
    \/ \E c \in Components, f \in 0..1 : CallLoadAnalysisState(c, f)

\* ------------------------------------------------------- SpecPool actions
\* a caller enters a database-layer function and reaches `with get_db_connection()`
Call(c) ==
    /\ pc[c] = "idle"
    /\ pc' = [pc EXCEPT ![c] = "get"]
    /\ UNCHANGED <<pool, held, lastExit>>
    /\ UNCHANGED <<dbVars, procVars>>

\* conn = db_pool.get_connection(): blocks until the queue is non-empty
Acquire(c) ==
    /\ pc[c] = "get"
    /\ ~QueueEmpty(pool)
    /\ LET g == GetConnection(pool)
       IN /\ pool' = g.pool
          /\ held' = [held EXCEPT ![c] = g.conn]
    /\ pc' = [pc EXCEPT ![c] = "body"]
    /\ UNCHANGED lastExit
    /\ UNCHANGED <<dbVars, procVars>>

\* the with-block is left (normally, by return, or by an exception) and the
\* generator's finally clause runs; put() would block on a full queue
ExitBlock(c, exitKind) ==
    /\ pc[c] = "body"
    /\ IF FinallyReturns(held[c], exitKind)
       THEN /\ ~QueueFull(pool)
            /\ pool' = ReturnConnection(pool, held[c])
            /\ held' = [held EXCEPT ![c] = NoConn]
       ELSE UNCHANGED <<pool, held>>
    /\ pc' = [pc EXCEPT ![c] = "idle"]
    /\ lastExit' = exitKind
    /\ UNCHANGED <<dbVars, procVars>>

\* db_pool = DatabasePool() at import: every connection idle, no caller inside
InitPoolVars ==
    /\ pool = NewPool
    /\ held = [c \in Callers |-> NoConn]
    /\ pc = [c \in Callers |-> "idle"]
    /\ lastExit = "none"

\* a browser session before main() ran: st.session_state is empty.  clock is
\* datetime.now() in ticks; run counts main()'s runs in this session; loadRuns
\* (the runs that called load_saved_state) and persists (the times of the
\* successful saves) record the session's history.  uploaded says a file is
\* selected in the st.file_uploader widget; event and eventOk are what the user
\* did last and whether it succeeded, cleared that the database was cleared
\* and nothing loaded since, processed the result of the last preprocessing
\* action that no later user action replaced
NoSession ==
    [started |-> FALSE, pc |-> "idle", active_tab |-> 0, state_loaded |-> FALSE,
     last_save_time |-> 0, clock |-> 0, run |-> 0, loadRuns |-> {}, persists |-> <<>>,
     uploaded |-> FALSE, event |-> "none", eventOk |-> FALSE, cleared |-> FALSE,
     processed |-> NoneFrame]

\* StateManager.initialize_session_state: st.session_state['df'] = None
InitPool ==
    /\ InitPoolVars
    /\ InitDbVars
    /\ frame = NoneFrame
    /\ calls = <<>>
    /\ session = NoSession

NextPool ==
    \E c \in Callers :
        \/ Call(c)
        \/ Acquire(c)
        \/ \E k \in ExitKinds : ExitBlock(c, k)

SpecPool == InitPool /\ [][NextPool]_vars

\* threads make progress: a with-block that was entered is left, and a caller
\* in pool.get() that could take a connection all the time takes one.
\* queue.Queue hands a connection to whichever thread locks the queue first,
\* so nothing stronger holds for a single caller
\* one caller more than there are connections contends for them; every
\* with-block ends
Contenders == 1..(MaxConnections + 1)
NextContend ==
    \E c \in Contenders :
        \/ Call(c)
        \/ Acquire(c)
        \/ ExitBlock(c, "normal")

SpecPoolFair ==
    /\ InitPool /\ [][NextContend]_vars
    /\ \A c \in Contenders : WF_vars(Acquire(c))
    /\ \A c \in Contenders : WF_vars(ExitBlock(c, "normal"))

Init == InitPool

\* init_db followed by saves and loads of analysis state, none of them failing
NextSaves ==
    \/ CallInitDb(0)
    \/ \E c \in Components, d \in StateDicts : CallSaveAnalysisState(c, d, 0)
    \/ \E c \in Components : CallLoadAnalysisState(c, 0)

SpecSaves == Init /\ [][NextSaves]_vars

SpecDf == Init /\ [][NextDf]_vars

SpecState == Init /\ [][NextState]_vars


\* ======================================================= utils/data_processor.py
\* position of a column label in df.columns, 0 when df[column] raises KeyError
ColumnIndex(df, column) ==
    IF \E i \in DOMAIN df.columns : df.columns[i] = column
    THEN CHOOSE i \in DOMAIN df.columns : df.columns[i] = column
    ELSE 0

\* df[column] as the sequence of its cells
ColumnOf(df, i) == [r \in DOMAIN df.rows |-> df.rows[r][i]]

\* df with column i replaced by the cells col of dtype dt
WithColumn(df, i, col, dt) ==
    [df EXCEPT !.rows = [r \in DOMAIN df.rows |-> [df.rows[r] EXCEPT ![i] = col[r]]],
               !.dtypes = [df.dtypes EXCEPT ![i] = dt]]

\* df[mask]: the rows r with mask[r], their index labels kept
SelectRows(df, mask) ==
    LET ix == SelectSeq([r \in DOMAIN df.rows |-> r], LAMBDA r : mask[r])
    IN  [df EXCEPT !.index = [k \in DOMAIN ix |-> df.index[ix[k]]],
                   !.rows = [k \in DOMAIN ix |-> df.rows[ix[k]]]]

\* Series.isnull().any() / Series.isnull().sum()
AnyNull(col) == \E r \in DOMAIN col : IsNull(col[r])
NullCount(col) == Cardinality({r \in DOMAIN col : IsNull(col[r])})

RECURSIVE Gcd(_, _)
Gcd(a, b) == IF b = 0 THEN a ELSE Gcd(b, a % b)

\* the number (hi * 2^53 + v) / d in lowest terms
Normalize(c) ==
    LET g == Gcd(Gcd(c.hi, c.v), c.d)
    IN  [c EXCEPT !.hi = c.hi \div g, !.v = c.v \div g, !.d = c.d \div g]

\* int64 -> float64: an integer 2^53 + v keeps 52 bits after the leading one, so
\* it is rounded to a multiple of 2, ties to the even mantissa
RoundToEven(v) ==
    IF v % 2 = 0 THEN v
    ELSE IF ((v - 1) \div 2) % 2 = 0 THEN v - 1 ELSE v + 1

ToFloat64(c) ==
    [k |-> "float", hi |-> c.hi, v |-> IF c.hi = 0 THEN c.v ELSE RoundToEven(c.v), d |-> c.d]

\* float64 -> int64 truncates toward zero
ToInt64(c) ==
    [k |-> "int", hi |-> c.hi,
     v |-> IF c.v >= 0 THEN c.v \div c.d ELSE 0 - ((0 - c.v) \div c.d), d |-> 1]

\* ------------------------------------------------------- Series.astype
\* the type names the preprocessing tab of main.py offers
TypeNames == {"int64", "float64", "str", "category"}

\* the dtype pandas reports after astype(new_type): astype('str') gives object
DtypeName(new_type) == IF new_type = "str" THEN "object" ELSE new_type

CastFail(c) == [ok |-> FALSE, cell |-> c]
CastOk(c) == [ok |-> TRUE, cell |-> c]

\* (mutant) str() writing an integer the way it writes a float ("1.0")
StrOfCell_FloatText(c) ==
    IF c.k \in {"int", "float"} THEN [c EXCEPT !.k = "fstr"] ELSE c

\* str(x): "1" for an int, "1.0" for a float, a text stays as it is
StrOfCell(c) ==
    CASE c.k = "int" -> [c EXCEPT !.k = "istr"]
      [] c.k = "float" -> [c EXCEPT !.k = "fstr"]
      [] OTHER -> c

\* int(x): truncates a float, parses "1", raises ValueError for "1.0" and "a"
IntOfCell(c) ==
    CASE c.k = "int" -> CastOk(c)
      [] c.k = "float" -> CastOk(ToInt64(c))
      [] c.k = "istr" -> CastOk([c EXCEPT !.k = "int"])
      [] OTHER -> CastFail(c)

\* float(x): rounds an int to the nearest float64, parses "1" and "1.0",
\* raises ValueError for "a"
FloatOfCell(c) ==
    CASE c.k = "int" -> CastOk(ToFloat64(c))
      [] c.k = "float" -> CastOk(c)
      [] c.k = "istr" -> CastOk(ToFloat64(c))
      [] c.k = "fstr" -> CastOk([c EXCEPT !.k = "float"])
      [] OTHER -> CastFail(c)

\* one value under astype(new_type); an unknown type name raises TypeError
CastCell(c, new_type) ==
    CASE new_type = "int64" -> IntOfCell(c)
      [] new_type = "float64" -> FloatOfCell(c)
      [] new_type = "str" -> CastOk(StrOfCell(c))
      [] new_type = "category" -> CastOk(c)
      [] OTHER -> CastFail(c)

\* ------------------------------------------------------- change_column_type
\* what a data_processor function hands back: the returned frame, the success
\* flag, and the frame object that was passed in as it is after the call
\* (mutant) an except clause that returns None in place of the frame
ProcFail_ReturnsNone(df) == [df |-> NoneFrame, ok |-> FALSE, passed |-> df]

\* the except clause of each function: st.error(...); return df, False
ProcFail(df) == [df |-> df, ok |-> FALSE, passed |-> df]
ProcOk(out, passed) == [df |-> out, ok |-> TRUE, passed |-> passed]

\* change_column_type: df[column] raises for None and for an unknown column, a
\* column with an empty value raises ValueError, astype raises for a value it
\* cannot convert; `df[column] = ...` then changes the passed frame in place
ChangeColumnType(df, column, new_type) ==
    LET i == ColumnIndex(df, column)
        col == ColumnOf(df, i)
        cast == [r \in DOMAIN col |-> CastCell(col[r], new_type)]
        out == WithColumn(df, i, [r \in DOMAIN col |-> cast[r].cell], DtypeName(new_type))
    IN  IF df.isNone \/ i = 0 THEN ProcFail(df)
        ELSE IF AnyNull(col) THEN ProcFail(df)
        ELSE IF \E r \in DOMAIN col : ~cast[r].ok THEN ProcFail(df)
        ELSE ProcOk(out, out)

\* ------------------------------------------------------- handle_missing_values
Methods == {"drop", "fill_value", "fill_mean", "fill_median"}

\* the non-null cells of a column, in row order
NonNull(col) == SelectSeq(col, LAMBDA c : ~IsNull(c))
IsNumber(c) == c.k \in {"int", "float"}

RECURSIVE SumHi(_)
SumHi(cells) == IF cells = <<>> THEN 0 ELSE Head(cells).hi + SumHi(Tail(cells))
RECURSIVE SumV(_)
SumV(cells) == IF cells = <<>> THEN 0 ELSE Head(cells).v + SumV(Tail(cells))

\* a < b for two numbers (columns hold whole numbers: d = 1 wherever hi > 0)
LessThan(a, b) == IF a.hi # b.hi THEN a.hi < b.hi ELSE a.v * b.d < b.v * a.d

\* the k-th smallest of a non-empty sequence of numbers
KthSmallest(cells, k) ==
    LET i == CHOOSE i \in DOMAIN cells :
                /\ Cardinality({j \in DOMAIN cells : LessThan(cells[j], cells[i])}) < k
                /\ k <= Cardinality({j \in DOMAIN cells : ~LessThan(cells[i], cells[j])})
    IN  cells[i]

\* Series.mean(): nulls are skipped; NaN when nothing is left; a text in the
\* column raises TypeError
MeanOf(col) ==
    LET vals == NonNull(col)
    IN  IF \E r \in DOMAIN vals : ~IsNumber(vals[r]) THEN CastFail(NullCell)
        ELSE IF vals = <<>> THEN CastOk(NullCell)
        ELSE CastOk(Normalize([k |-> "float", hi |-> SumHi(vals), v |-> SumV(vals),
                               d |-> Len(vals)]))

\* Series.median(): the middle value, or the mean of the two middle values
MedianOf(col) ==
    LET vals == NonNull(col)
        n == Len(vals)
        lo == KthSmallest(vals, (n + 1) \div 2)
        up == KthSmallest(vals, n \div 2 + 1)
    IN  IF \E r \in DOMAIN vals : ~IsNumber(vals[r]) THEN CastFail(NullCell)
        ELSE IF vals = <<>> THEN CastOk(NullCell)
        ELSE CastOk(Normalize([k |-> "float", hi |-> lo.hi + up.hi,
                               v |-> lo.v * up.d + up.v * lo.d, d |-> 2 * lo.d * up.d]))

\* the cell fillna(value) writes into a column of dtype dt, and the column's
\* dtype afterwards: a number goes into a float64 column as a float, a value of
\* another kind turns the column into object
FillCell(value, dt) == IF dt = "float64" /\ value.k = "int" THEN ToFloat64(value) ELSE value
FillDtype(value, dt) ==
    CASE dt = "float64" /\ IsNumber(value) -> "float64"
      [] dt = "category" -> "category"
      [] OTHER -> "object"

\* (mutant) the value written into every cell of the column
FillNa_AllCells(df, i, value) ==
    LET col == ColumnOf(df, i)
        dt == df.dtypes[i]
    IN  IF IsNull(value) \/ ~AnyNull(col) THEN df
        ELSE WithColumn(df, i, [r \in DOMAIN col |-> FillCell(value, dt)], FillDtype(value, dt))

\* df.assign(column = df[column].fillna(value)): a new frame; filling with NaN
\* changes nothing
FillNa(df, i, value) ==
    LET col == ColumnOf(df, i)
        dt == df.dtypes[i]
        new == [r \in DOMAIN col |-> IF IsNull(col[r]) THEN FillCell(value, dt) ELSE col[r]]
    IN  IF IsNull(value) \/ ~AnyNull(col) THEN df
        ELSE WithColumn(df, i, new, FillDtype(value, dt))

\* handle_missing_values: methods[method]() on a copy; anything raised (None as
\* df, unknown column or method, fillna(None), mean of texts) gives (df, False)
HandleMissingValues(df, column, method, value) ==
    LET i == ColumnIndex(df, column)
        col == ColumnOf(df, i)
        mean == MeanOf(col)
        median == MedianOf(col)
    IN  IF df.isNone \/ i = 0 THEN ProcFail(df)
        ELSE CASE method = "drop" ->
                    ProcOk(SelectRows(df, [r \in DOMAIN col |-> ~IsNull(col[r])]), df)
               [] method = "fill_value" ->
                    IF IsNull(value) THEN ProcFail(df) ELSE ProcOk(FillNa(df, i, value), df)
               [] method = "fill_mean" ->
                    IF mean.ok THEN ProcOk(FillNa(df, i, mean.cell), df) ELSE ProcFail(df)
               [] method = "fill_median" ->
                    IF median.ok THEN ProcOk(FillNa(df, i, median.cell), df) ELSE ProcFail(df)
               [] OTHER -> ProcFail(df)

\* ------------------------------------------------------- remove_duplicates
\* subset = None, or a list of column labels
NoSubset == [none |-> TRUE, cols |-> <<>>]
Subset(cols) == [none |-> FALSE, cols |-> cols]

\* the column positions rows are compared on: all of them for subset = None
SubsetIndexes(df, subset) ==
    IF subset.none THEN DOMAIN df.columns
    ELSE {ColumnIndex(df, subset.cols[k]) : k \in DOMAIN subset.cols}

SameOn(df, idxs, r, j) == \A i \in idxs : df.rows[r][i] = df.rows[j][i]

\* (mutant) rows compared on their first column only
Duplicated_FirstColumnOnly(df, idxs, keep, r) ==
    CASE keep = "first" -> \E j \in DOMAIN df.rows : j < r /\ df.rows[j][1] = df.rows[r][1]
      [] keep = "last" -> \E j \in DOMAIN df.rows : j > r /\ df.rows[j][1] = df.rows[r][1]
      [] OTHER -> \E j \in DOMAIN df.rows : j # r /\ df.rows[j][1] = df.rows[r][1]

\* DataFrame.duplicated(subset, keep)[r]: keep='first' marks a row that repeats
\* an earlier one, keep='last' one that is repeated later, keep=False every
\* row that has a twin; NaN equals NaN
Duplicated(df, idxs, keep, r) ==
    CASE keep = "first" -> \E j \in DOMAIN df.rows : j < r /\ SameOn(df, idxs, r, j)
      [] keep = "last" -> \E j \in DOMAIN df.rows : j > r /\ SameOn(df, idxs, r, j)
      [] OTHER -> \E j \in DOMAIN df.rows : j # r /\ SameOn(df, idxs, r, j)

\* the keep options the preprocessing tab passes: 'first', 'last', False
KeepOptions == {"first", "last", "False"}

\* remove_duplicates: df.drop_duplicates(subset, keep) is df[~df.duplicated(...)];
\* None as df, an unknown column in subset or an unknown keep raise
RemoveDuplicates(df, subset, keep) ==
    LET idxs == SubsetIndexes(df, subset)
    IN  IF df.isNone \/ 0 \in idxs \/ keep \notin KeepOptions THEN ProcFail(df)
        ELSE ProcOk(SelectRows(df, [r \in DOMAIN df.rows |-> ~Duplicated(df, idxs, keep, r)]),
                    df)

\* analyze_duplicates: duplicates_count = df.duplicated().sum()
AnalyzeDuplicates(df) ==
    Cardinality({r \in DOMAIN df.rows : Duplicated(df, DOMAIN df.columns, "first", r)})

\* ------------------------------------------------------- the preprocessing tab
\* one data_processor call: what was passed and what came back
ProcCall(op, df, column, arg, value, subset, r) ==
    [op |-> op, column |-> column, arg |-> arg, value |-> value, subset |-> subset,
     inp |-> df, out |-> r.df, ok |-> r.ok, passed |-> r.passed]

\* `df, success = f(df, ...)`, then `if success: st.session_state['df'] = df`;
\* the session's frame is the object that was passed in
AfterCall(rec) ==
    /\ frame' = IF rec.ok THEN rec.out ELSE rec.passed
    /\ calls' = Append(calls, rec)
    /\ UNCHANGED <<poolVars, dbVars, session>>

\* a type change is the first call on the frame, or follows a successful one
ApplyChangeColumnType(column, new_type) ==
    /\ \/ calls = <<>>
       \/ Len(calls) = 1 /\ calls[1].op = "change_column_type" /\ calls[1].ok
    /\ AfterCall(ProcCall("change_column_type", frame, column, new_type, NullCell, NoSubset,
                          ChangeColumnType(frame, column, new_type)))

ApplyHandleMissingValues(column, method, value) ==
    /\ calls = <<>>
    /\ AfterCall(ProcCall("handle_missing_values", frame, column, method, value, NoSubset,
                          HandleMissingValues(frame, column, method, value)))

ApplyRemoveDuplicates(subset, keep) ==
    /\ calls = <<>>
    /\ AfterCall(ProcCall("remove_duplicates", frame, "", keep, NullCell, subset,
                          RemoveDuplicates(frame, subset, keep)))

\* rows of the frames the processor is applied to
MaxRows == 3

\* the frames: 'numbers' is an int64 column (one value beyond 2^53) or a float64
\* column with NaN, 'text' an object column with None, as in the test frame
NumberCells(dt) ==
    IF dt = "int64" THEN {Cell("int", 1), Cell("int", 2), BigInt(1)}
    ELSE {Cell("float", 1), Cell("float", 2), NullCell}
TextCells == {Cell("text", 1), NullCell}
ProcRows(dt) == {<<n, t>> : n \in NumberCells(dt), t \in TextCells}
ProcFrames ==
    UNION {{MkFrame(<<"numbers", "text">>, <<dt, "object">>, [r \in 1..k |-> r - 1], rws) :
                rws \in [1..k -> ProcRows(dt)]} :
           dt \in {"int64", "float64"}, k \in 0..MaxRows}

\* the arguments of the calls
ColumnArgs == {"numbers", "text", "no_such_column"}
FillValues == {NullCell, Cell("int", 0), Cell("text", 9)}
SubsetArgs == {NoSubset, Subset(<<"numbers">>), Subset(<<"text">>), Subset(<<"no_such_column">>)}

InitProc ==
    /\ InitPoolVars
    /\ InitDbVars
    /\ frame \in ProcFrames
    /\ calls = <<>>
    /\ session = NoSession

NextProc ==
    \/ \E c \in ColumnArgs, ty \in TypeNames : ApplyChangeColumnType(c, ty)
    \/ \E c \in ColumnArgs, m \in Methods, v \in FillValues : ApplyHandleMissingValues(c, m, v)
    \/ \E s \in SubsetArgs, k \in KeepOptions : ApplyRemoveDuplicates(s, k)

SpecProc == InitProc /\ [][NextProc]_vars

\* ------------------------------------------------------- delete_data
\* a label handed to df.drop: a row label (an integer) or a column name
RowLabel(i) == [t |-> "int", i |-> i, s |-> ""]
ColLabel(name) == [t |-> "str", i |-> 0, s |-> name]

IsRowLabel(df, item) == item.t = "int" /\ \E r \in DOMAIN df.index : df.index[r] = item.i
IsColLabel(df, item) == item.t = "str" /\ ColumnIndex(df, item.s) # 0

\* the frame without the columns at the positions in gone
WithoutColumns(df, gone) ==
    LET keep == SelectSeq([i \in DOMAIN df.columns |-> i], LAMBDA i : i \notin gone)
    IN  [df EXCEPT !.columns = [k \in DOMAIN keep |-> df.columns[keep[k]]],
                   !.dtypes = [k \in DOMAIN keep |-> df.dtypes[keep[k]]],
                   !.rows = [r \in DOMAIN df.rows |->
                                [k \in DOMAIN keep |-> df.rows[r][keep[k]]]]]

\* delete_data: df.drop(items, axis) on a copy; a label that is not on the
\* axis raises KeyError, an axis other than 0 and 1 ValueError
DeleteData(df, items, axis) ==
    IF df.isNone THEN ProcFail(df)
    ELSE CASE axis = 0 ->
                IF \E k \in DOMAIN items : ~IsRowLabel(df, items[k]) THEN ProcFail(df)
                ELSE ProcOk(SelectRows(df, [r \in DOMAIN df.rows |->
                                ~\E k \in DOMAIN items : items[k].i = df.index[r]]), df)
           [] axis = 1 ->
                IF \E k \in DOMAIN items : ~IsColLabel(df, items[k]) THEN ProcFail(df)
                ELSE ProcOk(WithoutColumns(df, {ColumnIndex(df, items[k].s) :
                                                    k \in DOMAIN items}), df)
           [] OTHER -> ProcFail(df)

\* ------------------------------------------------------- add_computed_column
\* df.eval(formula) for the formulas "<column> + 1" and "<column> +": the
\* second is a syntax error, an unknown column raises UndefinedVariableError,
\* a text or None plus 1 raises TypeError
Formula(column, wellFormed) == [column |-> column, wellFormed |-> wellFormed]

PlusOne(c) == IF IsNull(c) THEN c ELSE [c EXCEPT !.v = c.v + 1]

EvalFormula(df, formula) ==
    LET i == ColumnIndex(df, formula.column)
        col == ColumnOf(df, i)
    IN  IF ~formula.wellFormed \/ i = 0 THEN [ok |-> FALSE, col |-> <<>>, dt |-> ""]
        ELSE IF df.dtypes[i] \notin {"int64", "float64"} /\ Len(col) > 0
             THEN [ok |-> FALSE, col |-> <<>>, dt |-> ""]
        ELSE [ok |-> TRUE, col |-> [r \in DOMAIN col |-> PlusOne(col[r])], dt |-> df.dtypes[i]]

\* df.assign(name = values): replaces the column of that name or appends one
Assign(df, name, col, dt) ==
    IF ColumnIndex(df, name) # 0 THEN WithColumn(df, ColumnIndex(df, name), col, dt)
    ELSE [df EXCEPT !.columns = Append(df.columns, name),
                    !.dtypes = Append(df.dtypes, dt),
                    !.rows = [r \in DOMAIN df.rows |-> Append(df.rows[r], col[r])]]

\* add_computed_column: df.assign(**{new_column_name: df.eval(formula)})
AddComputedColumn(df, new_column_name, formula) ==
    LET e == EvalFormula(df, formula)
    IN  IF df.isNone \/ ~e.ok THEN ProcFail(df)
        ELSE ProcOk(Assign(df, new_column_name, e.col, e.dt), df)

\* calls of the two functions on the session's frame; items and formula are
\* kept in the call
ApplyDeleteData(items, axis) ==
    /\ calls = <<>>
    /\ AfterCall([ProcCall("delete_data", frame, "", "", NullCell, NoSubset,
                           DeleteData(frame, items, axis))
                    EXCEPT !.subset = [none |-> FALSE, cols |-> items], !.value.v = axis])

ApplyAddComputedColumn(new_column_name, formula) ==
    /\ calls = <<>>
    /\ AfterCall([ProcCall("add_computed_column", frame, new_column_name, formula.column,
                           NullCell, NoSubset,
                           AddComputedColumn(frame, new_column_name, formula))
                    EXCEPT !.value.v = IF formula.wellFormed THEN 1 ELSE 0])

DropItems == {<<RowLabel(0)>>, <<RowLabel(7)>>, <<ColLabel("text")>>,
              <<ColLabel("text"), ColLabel("no_such_column")>>}
Formulas == {Formula(c, w) : c \in ColumnArgs, w \in BOOLEAN}

\* every data_processor function, with unknown columns, methods, labels and
\* axes and malformed formulas among the arguments
NextProcAll ==
    \/ NextProc
    \/ \E c \in ColumnArgs, v \in FillValues : ApplyHandleMissingValues(c, "no_such_method", v)
    \/ \E it \in DropItems, ax \in 0..2 : ApplyDeleteData(it, ax)
    \/ \E nm \in {"total", "numbers"}, f \in Formulas : ApplyAddComputedColumn(nm, f)

SpecProcAll == InitProc /\ [][NextProcAll]_vars

\* ======================================================= utils/data_analyzer.py
\* A statistic is [nan, e]: NaN, or the number e / 8 (quartiles of whole
\* numbers are multiples of 1/4, 1.5 * IQR a multiple of 1/8)
NaN8 == [nan |-> TRUE, e |-> 0]
Eighths(e) == [nan |-> FALSE, e |-> e]

\* Series.quantile(q4 / 4), linear interpolation between the two nearest order
\* statistics of the non-null values; NaN when there is none
Quantile(col, q4) ==
    LET vals == NonNull(col)
        n == Len(vals)
        pos == (n - 1) * q4
        i == pos \div 4
        lo == KthSmallest(vals, i + 1).v
        up == KthSmallest(vals, IF i + 2 > n THEN n ELSE i + 2).v
    IN  IF n = 0 THEN NaN8 ELSE Eighths(8 * lo + 2 * (pos % 4) * (up - lo))

\* (mutant) bounds one IQR away from the quartiles
IqrBounds_OneIqr(q1, q3) ==
    IF q1.nan \/ q3.nan THEN [lower |-> NaN8, upper |-> NaN8]
    ELSE [lower |-> Eighths(q1.e - (q3.e - q1.e)), upper |-> Eighths(q3.e + (q3.e - q1.e))]

\* IQR = Q3 - Q1; lower_bound = Q1 - 1.5 * IQR; upper_bound = Q3 + 1.5 * IQR
IqrBounds(q1, q3) ==
    IF q1.nan \/ q3.nan THEN [lower |-> NaN8, upper |-> NaN8]
    ELSE [lower |-> Eighths(q1.e - (3 * (q3.e - q1.e)) \div 2),
          upper |-> Eighths(q3.e + (3 * (q3.e - q1.e)) \div 2)]

\* df[(df[column] < lower_bound) | (df[column] > upper_bound)]: a comparison
\* with NaN is False
OutlierRows(col, b) ==
    {r \in DOMAIN col :
        /\ ~IsNull(col[r]) /\ ~b.lower.nan
        /\ 8 * col[r].v < b.lower.e \/ 8 * col[r].v > b.upper.e}

\* what an analyzer function hands back: kind is "none" (None, None),
\* "bounds" or "raise"; computed says the quartiles were evaluated
StatResult(kind, computed, q1, q3, b, outliers) ==
    [kind |-> kind, computed |-> computed, q1 |-> q1, q3 |-> q3,
     lower |-> b.lower, upper |-> b.upper, outliers |-> outliers]
NoBounds == [lower |-> NaN8, upper |-> NaN8]

\* analyze_outliers: (None, None) for column None; df[column] raises KeyError
\* for an unknown column, quantile raises TypeError for a column of texts,
\* len(outliers) / len(df) raises ZeroDivisionError for a frame without rows
AnalyzeOutliers(df, column) ==
    LET i == ColumnIndex(df, column)
        col == ColumnOf(df, i)
        q1 == Quantile(col, 1)
        q3 == Quantile(col, 3)
        b == IqrBounds(q1, q3)
    IN  IF column = "None" THEN StatResult("none", FALSE, NaN8, NaN8, NoBounds, 0)
        ELSE IF df.isNone \/ i = 0 THEN StatResult("raise", FALSE, NaN8, NaN8, NoBounds, 0)
        ELSE IF \E r \in DOMAIN col : ~IsNull(col[r]) /\ ~IsNumber(col[r])
             THEN StatResult("raise", FALSE, NaN8, NaN8, NoBounds, 0)
        ELSE IF Len(df.rows) = 0 THEN StatResult("raise", TRUE, q1, q3, b, 0)
        ELSE StatResult("bounds", TRUE, q1, q3, b, Cardinality(OutlierRows(col, b)))

\* ------------------------------------------------------- perform_normality_test
\* `if len(data) > 5000` and `if len(data) < 5000`
SampleLimit == 5000
ShapiroLimit == 5000

\* (mutant) no down-sampling
Downsample_Never(n) == n

\* data.sample(n=5000, random_state=42) when there are more than 5000 points;
\* a sample is modelled by its length
Downsample(n) == IF n > SampleLimit THEN SampleLimit ELSE n

\* the returned dict: its keys, which values are None, and the length of the
\* data the tests were run on; kind "raise" when a scipy test raises
NormalityResult(kind, shapiro, tested) ==
    [kind |-> kind, keys |-> {"shapiro", "ks", "k2"},
     shapiro |-> shapiro, ks |-> "tuple", k2 |-> "tuple", tested |-> tested]

\* perform_normality_test(data) for data of length n.  scipy decides whether
\* shapiro, kstest or normaltest raise (too few points, texts): lib = "raise"
PerformNormalityTest(n, lib) ==
    LET m == Downsample(n)
    IN  IF lib = "raise" THEN NormalityResult("raise", "None", m)
        ELSE NormalityResult("dict", IF m < ShapiroLimit THEN "tuple" ELSE "None", m)

\* ------------------------------------------------------- analyze_distribution
\* the keys of the dict get_advanced_stats builds, in Latin letters: 'Среднее'
\* is "Srednee", 'Медиана' is "Mediana"
StatKeys ==
    {"Srednee", "Mediana", "Moda", "SKO", "Dispersiya", "Minimum", "Maksimum", "Razmakh",
     "Q1 (25%)", "Q3 (75%)", "IQR", "Asimmetriya", "Ekstsess",
     "CI nizhnyaya granitsa (95%)", "CI verkhnyaya granitsa (95%)"}

\* get_advanced_stats(df, column): the statistics of the non-null values;
\* mean() raises for a column of texts
GetAdvancedStats(df, column) ==
    LET col == ColumnOf(df, ColumnIndex(df, column))
    IN  [ok |-> MeanOf(col).ok, keys |-> StatKeys,
         mean |-> MeanOf(col).cell, median |-> MedianOf(col).cell]

\* what analyze_distribution hands back: kind is "dict", "none" (None) or
\* "raise"; shown are the statistics it displayed
DistResult(kind, shown) == [kind |-> kind, keys |-> shown]

\* analyze_distribution(df, column): the statistics and the normality tests
\* are computed and displayed, and the function ends without a return
\* statement
AnalyzeDistribution(df, column, lib) ==
    LET i == ColumnIndex(df, column)
        data == NonNull(ColumnOf(df, i))
        stats_dict == GetAdvancedStats(df, column)
        normality_tests == PerformNormalityTest(Len(data), lib)
    IN  IF df.isNone \/ i = 0 THEN DistResult("raise", {})
        ELSE IF ~stats_dict.ok THEN DistResult("raise", {})
        ELSE IF normality_tests.kind = "raise" THEN DistResult("raise", stats_dict.keys)
        ELSE DistResult("none", stats_dict.keys)

\* an analyzer call on the session's frame: nothing is written back
StatCall(op, column, r) == [op |-> op, column |-> column, inp |-> frame, res |-> r]
AfterStatCall(rec) ==
    /\ calls' = Append(calls, rec)
    /\ UNCHANGED <<frame, session, poolVars, dbVars>>

ApplyAnalyzeOutliers(column) ==
    /\ calls = <<>>
    /\ AfterStatCall(StatCall("analyze_outliers", column, AnalyzeOutliers(frame, column)))

ApplyAnalyzeDistribution(column, lib) ==
    /\ calls = <<>>
    /\ AfterStatCall([op |-> "analyze_distribution", column |-> column, lib |-> lib,
                      inp |-> frame, res |-> AnalyzeDistribution(frame, column, lib)])

\* values of the column the analyzer is applied to
MaxValues == 4

\* the frames: a float64 column 'value' with NaN and a column 'label' of texts
StatFrames ==
    UNION {{MkFrame(<<"value", "label">>, <<"float64", "object">>, [r \in 1..k |-> r - 1],
                    [r \in 1..k |-> <<vs[r], Cell("text", 1)>>]) :
                vs \in [1..k -> {Cell("float", 1), Cell("float", 2), NullCell}]} :
           k \in 0..MaxValues}
StatColumnArgs == {"None", "value", "label", "no_such_column"}

InitAnalyzer ==
    /\ InitPoolVars
    /\ InitDbVars
    /\ frame \in StatFrames
    /\ calls = <<>>
    /\ session = NoSession

NextAnalyzer ==
    \/ \E c \in StatColumnArgs : ApplyAnalyzeOutliers(c)
    \/ \E c \in StatColumnArgs \ {"None"}, lib \in {"ok", "raise"} : ApplyAnalyzeDistribution(c, lib)

SpecAnalyzer == InitAnalyzer /\ [][NextAnalyzer]_vars

\* samples for perform_normality_test alone
ApplyPerformNormalityTest(n, lib) ==
    /\ calls = <<>>
    /\ AfterStatCall([op |-> "perform_normality_test", n |-> n, lib |-> lib,
                      res |-> PerformNormalityTest(n, lib)])

\* the longest sample
MaxSampleSize == 5002

NextNormality ==
    \E n \in 0..MaxSampleSize, lib \in {"ok", "raise"} : ApplyPerformNormalityTest(n, lib)

SpecNormality == Init /\ [][NextNormality]_vars

\* ======================================================= main.py
\* datetime.now() advances in ticks
TicksPerSecond == 2
MaxTime == 4
\* main() runs per session
MaxRuns == 2
Tabs == {0, 1}

\* initialize_session_state: the keys are set only when absent
InitializeSessionState(ss) ==
    IF ss.started THEN ss
    ELSE [ss EXCEPT !.started = TRUE, !.active_tab = 0, !.state_loaded = FALSE,
                    !.last_save_time = ss.clock]

\* state.get(key, default)
DictGet(d, key, default) ==
    IF \E i \in DOMAIN d : d[i].key.s = key
    THEN d[CHOOSE i \in DOMAIN d : d[i].key.s = key].val
    ELSE default

\* load_saved_state with the dict load_analysis_state('main_app') returned:
\* True and the settings taken over when the dict is not empty, else False
LoadSavedState(ss, state) ==
    IF state # EmptyDict
    THEN [ok |-> TRUE, ss |-> [ss EXCEPT !.active_tab = DictGet(state, "active_tab", 0)]]
    ELSE [ok |-> FALSE, ss |-> ss]

\* (mutant) save_current_state without the minimum interval
Throttled_Never(ss) == FALSE

\* save_current_state: `if time_diff < 1: return`
Throttled(ss) == ss.started /\ ss.clock - ss.last_save_time < 1 * TicksPerSecond

\* main() up to init_db: the session state is initialised, and main returns
\* when init_db fails
MainInitDb(fail) ==
    /\ session.pc = "idle"
    /\ session.run < MaxRuns
    /\ ~QueueEmpty(pool)
    /\ LET o == InitDb(Session(Head(pool)), fail)
           ss == InitializeSessionState(session)
       IN  /\ ThroughConnection(o, WriteCall("init_db", o, NoCall))
           /\ session' = [ss EXCEPT !.run = @ + 1,
                                    !.pc = IF o.ret.kind = "True" THEN "load" ELSE "idle"]
    /\ UNCHANGED <<frame, calls>>

\* `if not st.session_state.state_loaded: if load_saved_state(): state_loaded = True`
MainLoadSavedState(fail) ==
    /\ session.pc = "load"
    /\ ~QueueEmpty(pool)
    /\ IF session.state_loaded
       THEN /\ fail = 0
            /\ session' = [session EXCEPT !.pc = "ui"]
            /\ UNCHANGED <<poolVars, dbVars>>
       ELSE LET o == LoadAnalysisState(Session(Head(pool)), "main_app", fail)
                r == LoadSavedState(session, o.ret.state)
            IN  /\ ThroughConnection(o, ReadCall)
                /\ session' = [r.ss EXCEPT !.state_loaded = r.ok, !.pc = "ui",
                                           !.loadRuns = @ \cup {session.run}]
    /\ UNCHANGED <<frame, calls>>

\* a widget handler of the run that ends in save_current_state(): the tab
\* selector (tab is the tab chosen) or a button (tab is the active tab)
MainSaveCurrentState(tab, fail) ==
    /\ session.pc = "ui"
    /\ ~QueueEmpty(pool)
    /\ LET ss == [session EXCEPT !.active_tab = tab]
       IN  IF Throttled(ss)
           THEN /\ fail = 0
                /\ session' = ss
                /\ UNCHANGED <<poolVars, dbVars>>
           ELSE LET o == SaveAnalysisState(Session(Head(pool)), "main_app",
                                           TabDict(ss.active_tab), fail)
                IN  /\ Len(Cur(Session(Head(pool))).states) < MaxStateRows
                    /\ ThroughConnection(o, WriteCall("save_analysis_state", o,
                           [NoCall EXCEPT !.comp = "main_app", !.data = TabDict(ss.active_tab)]))
                    /\ session' = IF o.ret.kind = "True"
                                  THEN [ss EXCEPT !.last_save_time = ss.clock,
                                                  !.persists = Append(@, ss.clock)]
                                  ELSE ss
    /\ UNCHANGED <<frame, calls>>

\* the script run ends; the next interaction starts a rerun
MainEnd ==
    /\ session.pc = "ui"
    /\ session' = [session EXCEPT !.pc = "idle"]
    /\ UNCHANGED <<poolVars, dbVars, frame, calls>>

\* time passes
Tick ==
    /\ session.clock < MaxTime
    /\ session' = [session EXCEPT !.clock = @ + 1]
    /\ UNCHANGED <<poolVars, dbVars, frame, calls>>

\* the page is opened anew: an empty st.session_state, the same database
NewSession ==
    /\ session.pc = "idle"
    /\ session.started
    /\ session' = [NoSession EXCEPT !.clock = session.clock]
    /\ UNCHANGED <<poolVars, dbVars, frame, calls>>

NextSession ==
    \/ \E f \in 0..3 : MainInitDb(f)
    \/ \E f \in 0..1 : MainLoadSavedState(f)
    \/ \E t \in Tabs, f \in 0..2 : MainSaveCurrentState(t, f)
    \/ MainEnd
    \/ Tick
    \/ NewSession

SpecSession == Init /\ [][NextSession]_vars

\* ------------------------------------------------------- one run of main()
\* the frame pd.read_csv('test_data.csv') gives and the frame load_data gives
\* for the file in the uploader
TestData == FrameA
UploadedFrame ==
    MkFrame(<<"value">>, <<"float64">>, <<0, 1, 2>>,
            << <<Cell("float", 1)>>, <<NullCell>>, <<Cell("float", 1)>> >>)

Events == {"rerun", "upload", "remove_file", "test_data", "apply", "clear"}

\* what the user did before the run: put a file into the uploader, removed
\* it, or pressed a button
Interact(ss, event) ==
    [ss EXCEPT !.event = event, !.eventOk = FALSE,
               !.uploaded = IF event = "upload" THEN TRUE
                            ELSE IF event = "remove_file" THEN FALSE ELSE @,
               !.cleared = IF event \in {"upload", "test_data"} THEN FALSE ELSE @,
               !.processed = IF event \in {"upload", "test_data"} THEN NoneFrame ELSE @]

\* a step of the script that calls nothing in the database layer
MainStep(df, ss) ==
    /\ frame' = df
    /\ session' = ss
    /\ UNCHANGED <<poolVars, dbVars, calls>>

\* a step of the script that makes the database-layer call with outcome o
MainCall(o, rec, df, ss) ==
    /\ ~QueueEmpty(pool)
    /\ ThroughConnection(o, rec)
    /\ frame' = df
    /\ session' = ss
    /\ UNCHANGED calls

\* save_dataframe(df, source=source) and what the script does on True, on
\* False and when it raises; no connection is taken for None or an empty frame
MainSaveDataframe(df, source, onTrue, onFalse, onRaise) ==
    LET o == SaveDataframe(Session(Head(pool)), df, "current_data", source, 0, 0)
        rec == WriteCall("save_dataframe", o,
                   [NoCall EXCEPT !.t = "current_data", !.df = df, !.source = source])
        to == IF o.ret.kind = "True" THEN onTrue
              ELSE IF o.ret.kind = "raise" THEN onRaise ELSE onFalse
    IN  IF df.isNone \/ DfEmpty(df) THEN MainStep(to.df, to.ss)
        ELSE MainCall(o, rec, to.df, to.ss)

\* where the script stands after a step: st.session_state['df'] and the
\* position
At(df, position) == [df |-> df, ss |-> [session EXCEPT !.pc = position]]

\* main() begins after a user interaction, or at once after st.rerun():
\* initialize_session_state(); `if not init_db(): return`
MainStart(event) ==
    /\ session.pc \in {"idle", "rerun"}
    /\ session.pc = "rerun" => event = "rerun"
    /\ event \in {"apply", "clear"} => ~frame.isNone
    /\ event = "upload" => ~session.uploaded
    /\ event = "remove_file" => session.uploaded
    /\ LET o == InitDb(Session(Head(pool)), 0)
           ss == InitializeSessionState(Interact(session, event))
       IN  MainCall(o, WriteCall("init_db", o, NoCall), frame,
                    [ss EXCEPT !.pc = IF o.ret.kind = "True" THEN "load_state" ELSE "idle"])

\* `if not st.session_state.state_loaded: if load_saved_state(): ...`
MainLoadState ==
    /\ session.pc = "load_state"
    /\ LET o == LoadAnalysisState(Session(Head(pool)), "main_app", 0)
           l == LoadSavedState(session, o.ret.state)
       IN  IF session.state_loaded THEN MainStep(frame, [session EXCEPT !.pc = "restore"])
           ELSE MainCall(o, ReadCall, frame,
                         [l.ss EXCEPT !.state_loaded = l.ok, !.pc = "restore"])

\* `if 'df' not in st.session_state: df = load_dataframe()`, then the
\* test-data button
MainRestore ==
    /\ session.pc = "restore"
    /\ LET o == LoadDataframe(Session(Head(pool)), "current_data", 0)
           ss == [session EXCEPT !.pc = IF session.event = "test_data"
                                        THEN "test_data" ELSE "uploader"]
       IN  IF ~frame.isNone THEN MainStep(frame, ss)
           ELSE MainCall(o, ReadCall, IF o.ret.kind = "frame" THEN o.ret.frame ELSE frame, ss)

\* load_test_data() returns the frame whatever save_dataframe returned, and
\* None when it raised; on a frame: session df, then save_current_state()
MainTestData ==
    /\ session.pc = "test_data"
    /\ MainSaveDataframe(TestData, "test_data",
           At(TestData, "save_after_test"), At(TestData, "save_after_test"),
           At(frame, "uploader"))

\* `uploaded_df = get_file_uploader()`: the widget hands over its file in
\* every run; `st.session_state['df'] = uploaded_df`, then save_dataframe and,
\* on True, save_current_state()
MainUploader ==
    /\ session.pc = "uploader"
    /\ IF ~session.uploaded THEN MainStep(frame, [session EXCEPT !.pc = "tabs"])
       ELSE MainSaveDataframe(UploadedFrame, "file_upload",
                At(UploadedFrame, "save_after_upload"), At(UploadedFrame, "tabs"),
                At(UploadedFrame, "idle"))

\* `if 'df' in st.session_state:` get_table_info(), then the tabs
MainTabs ==
    /\ session.pc = "tabs"
    /\ LET o == GetTableInfo(Session(Head(pool)), "current_data", 0)
           ss == [session EXCEPT
                     !.pc = IF session.event \in {"apply", "clear"} THEN "button" ELSE "idle",
                     !.eventOk = session.event \notin {"apply", "clear"}]
       IN  IF frame.isNone THEN MainStep(frame, [session EXCEPT !.pc = "idle"])
           ELSE MainCall(o, ReadCall, frame, ss)

\* the preprocessing actions the tab offers on the frame
Preprocessings == {"change_type", "drop", "fill_value", "duplicates"}
Preprocess(df, action) ==
    CASE action = "change_type" -> ChangeColumnType(df, df.columns[1], "int64")
      [] action = "drop" -> HandleMissingValues(df, df.columns[1], "drop", NullCell)
      [] action = "fill_value" ->
            HandleMissingValues(df, df.columns[1], "fill_value", Cell("float", 2))
      [] OTHER -> RemoveDuplicates(df, NoSubset, "first")

\* an 'apply' button: `df, success = f(df, ...)`; on success the result is
\* the session's frame, save_dataframe(df), save_current_state()
MainApply(action) ==
    /\ session.pc = "button"
    /\ session.event = "apply"
    /\ LET p == Preprocess(frame, action)
           done == [session EXCEPT !.eventOk = TRUE, !.processed = p.df]
       IN  IF ~p.ok THEN MainStep(p.passed, [session EXCEPT !.pc = "idle"])
           ELSE MainSaveDataframe(p.df, "unknown",
                    [df |-> p.df, ss |-> [done EXCEPT !.pc = "save_after_apply"]],
                    [df |-> p.df, ss |-> [done EXCEPT !.pc = "save_after_apply"]],
                    [df |-> p.df, ss |-> [done EXCEPT !.pc = "idle"]])

\* the 'clear database' button: `if delete_dataframe(): pop('df'); st.rerun()`
MainClear(fail) ==
    /\ session.pc = "button"
    /\ session.event = "clear"
    /\ LET o == DeleteDataframe(Session(Head(pool)), "current_data", fail)
           rec == WriteCall("delete_dataframe", o, [NoCall EXCEPT !.t = "current_data"])
       IN  IF o.ret.kind = "True"
           THEN MainCall(o, rec, NoneFrame,
                         [session EXCEPT !.pc = "rerun", !.eventOk = TRUE, !.cleared = TRUE,
                                         !.processed = NoneFrame])
           ELSE MainCall(o, rec, frame, [session EXCEPT !.pc = "idle"])

\* where the script goes on after a save_current_state()
AfterSave(position) ==
    CASE position = "save_after_test" -> "uploader"
      [] position = "save_after_upload" -> "tabs"
      [] OTHER -> "idle"

\* save_current_state() inside the run
MainSaveState ==
    /\ session.pc \in {"save_after_test", "save_after_upload", "save_after_apply"}
    /\ LET o == SaveAnalysisState(Session(Head(pool)), "main_app",
                                  TabDict(session.active_tab), 0)
           rec == WriteCall("save_analysis_state", o,
                      [NoCall EXCEPT !.comp = "main_app", !.data = TabDict(session.active_tab)])
           ss == [session EXCEPT !.pc = AfterSave(session.pc)]
       IN  IF Throttled(session) THEN MainStep(frame, ss)
           ELSE /\ Len(Cur(Session(Head(pool))).states) < MaxStateRows
                /\ MainCall(o, rec, frame,
                       IF o.ret.kind = "True"
                       THEN [ss EXCEPT !.last_save_time = session.clock,
                                       !.persists = Append(@, session.clock)]
                       ELSE ss)

\* the interactions of a session that follow each other within the minimum
\* save interval: the clock stands still
NextMain ==
    \/ \E e \in Events : MainStart(e)
    \/ MainLoadState
    \/ MainRestore
    \/ MainTestData
    \/ MainUploader
    \/ MainTabs
    \/ \E a \in Preprocessings : MainApply(a)
    \/ \E f \in 0..3 : MainClear(f)
    \/ MainSaveState

SpecMain == Init /\ [][NextMain]_vars

\* ======================================================= utils/data_loader.py
\* An uploaded file: its size in bytes and its name, stem + suffix (the suffix
\* is what Path(name).suffix gives: the last dot and what follows it)
NoFile == [isNone |-> TRUE, size |-> 0, stem |-> "", suffix |-> ""]
UploadedFile(size, suffix) == [isNone |-> FALSE, size |-> size, stem |-> "data", suffix |-> suffix]

\* MAX_FILE_SIZE = 100 * 1024 * 1024
MaxFileSize == 104857600
\* validate_dataframe: len(df.columns) > 1000
MaxColumns == 1000

\* str.lower() on the suffixes that occur
Lower(sfx) ==
    CASE sfx = ".CSV" -> ".csv"
      [] sfx = ".GZ" -> ".gz"
      [] sfx = ".Xlsx" -> ".xlsx"
      [] OTHER -> sfx

AllowedExtensions == {".csv", ".xlsx", ".xls", ".gz", ".zip"}

\* what a validation hands back: the flag and the message shown or returned
Verdict(ok, msg) == [ok |-> ok, msg |-> msg]

\* (mutant) validate_file with a strict size limit
ValidateFile_StrictLimit(file) ==
    IF file.isNone THEN Verdict(FALSE, "")
    ELSE IF file.size >= MaxFileSize THEN Verdict(FALSE, "too big")
    ELSE IF Lower(file.suffix) \notin AllowedExtensions THEN Verdict(FALSE, "unsupported format")
    ELSE Verdict(TRUE, "")

\* validate_file: None, then the size, then the lower-cased extension
ValidateFile(file) ==
    IF file.isNone THEN Verdict(FALSE, "")
    ELSE IF file.size > MaxFileSize THEN Verdict(FALSE, "too big")
    ELSE IF Lower(file.suffix) \notin AllowedExtensions THEN Verdict(FALSE, "unsupported format")
    ELSE Verdict(TRUE, "")

\* set(df.columns)
NameSet(cols) == {cols[i] : i \in DOMAIN cols}

\* (mutant) validate_dataframe that looks for repeated names first
ValidateDataframe_NamesFirst(df) ==
    IF Len(df.columns) # Cardinality(NameSet(df.columns)) THEN Verdict(FALSE, "duplicate names")
    ELSE IF DfEmpty(df) THEN Verdict(FALSE, "empty")
    ELSE IF Len(df.columns) > MaxColumns THEN Verdict(FALSE, "too many columns")
    ELSE Verdict(TRUE, "")

\* validate_dataframe: empty, then the number of columns, then repeated names
ValidateDataframe(df) ==
    IF DfEmpty(df) THEN Verdict(FALSE, "empty")
    ELSE IF Len(df.columns) > MaxColumns THEN Verdict(FALSE, "too many columns")
    ELSE IF Len(df.columns) # Cardinality(NameSet(df.columns))
         THEN Verdict(FALSE, "duplicate names")
    ELSE Verdict(TRUE, "")

\* a parsed file: ncols columns of texts named 1, 2, ... (with dup, the second
\* repeats the name of the first) and nrows rows
ParsedFrame(ncols, nrows, dup) ==
    MkFrame([i \in 1..ncols |-> IF dup /\ i = 2 THEN 1 ELSE i],
            [i \in 1..ncols |-> "object"],
            [r \in 1..nrows |-> r - 1],
            [r \in 1..nrows |-> [i \in 1..ncols |-> Cell("text", 1)]])
ColumnCounts == {0, 1, 2, MaxColumns, MaxColumns + 1}
ParsedFrames ==
    {ParsedFrame(n, r, d) : n \in ColumnCounts, r \in 0..1, d \in BOOLEAN}

\* what load_data hands back: kind is "None" | "frame" | "raise"; reader names
\* the branch that read the file
LoadResult(kind, df, reader) == [kind |-> kind, frame |-> df, reader |-> reader]

\* (mutant) an except clause that lets the exception pass
HandleLoadError_Reraise(reader) == LoadResult("raise", NoneFrame, reader)

\* load_data's except clause: logging.error (logging is imported), st.error,
\* return None
HandleLoadError(reader) == LoadResult("None", NoneFrame, reader)

\* parse_datetime_columns: an object column whose texts match one of the date
\* formats becomes datetime64; names and shape stay as they are
ParseDatetimeColumns(df, parse) ==
    IF parse = "dates"
    THEN [df EXCEPT !.dtypes = [i \in DOMAIN df.dtypes |->
                                   IF df.dtypes[i] = "object" THEN "datetime64[ns]"
                                   ELSE df.dtypes[i]]]
    ELSE df

\* the branch of load_data that reads the file: name.endswith is case-sensitive
ReaderOf(file, file_type) ==
    CASE file.suffix = ".gz" -> "gzip"
      [] file.suffix = ".zip" -> "zip"
      [] file_type = "csv" -> "read_csv"
      [] OTHER -> "read_excel"

\* load_data.  The environment decides what reading gives: read is
\* [raises, frame]; zipHasCsv says a ZIP archive has a .csv member; parse is
\* "none" | "dates" | "raise" for parse_datetime_columns
LoadData(file, file_type, zipHasCsv, read, parse) ==
    LET reader == ReaderOf(file, file_type)
    IN  IF ~ValidateFile(file).ok THEN LoadResult("None", NoneFrame, "")
        ELSE IF reader = "zip" /\ ~zipHasCsv THEN HandleLoadError(reader)
        ELSE IF read.raises THEN HandleLoadError(reader)
        ELSE IF ~ValidateDataframe(read.frame).ok THEN LoadResult("None", NoneFrame, reader)
        ELSE IF parse = "raise" THEN HandleLoadError(reader)
        ELSE LoadResult("frame", ParseDatetimeColumns(read.frame, parse), reader)

\* the loader's calls: nothing of the session changes inside them
ApplyValidateFile(file) ==
    /\ calls = <<>>
    /\ AfterStatCall([op |-> "validate_file", file |-> file, res |-> ValidateFile(file)])

ApplyValidateDataframe(df) ==
    /\ calls = <<>>
    /\ AfterStatCall([op |-> "validate_dataframe", df |-> df, res |-> ValidateDataframe(df)])

ApplyLoadData(file, file_type, zipHasCsv, read, parse) ==
    /\ calls = <<>>
    /\ AfterStatCall([op |-> "load_data", file |-> file, file_type |-> file_type,
                      zipHasCsv |-> zipHasCsv, read |-> read, parse |-> parse,
                      res |-> LoadData(file, file_type, zipHasCsv, read, parse)])

\* the files and what reading them gives
FileSizes == {1, MaxFileSize, MaxFileSize + 1}
Suffixes == {".csv", ".CSV", ".xlsx", ".Xlsx", ".xls", ".gz", ".GZ", ".zip", ".txt", ""}
Files == {NoFile} \cup {UploadedFile(n, sfx) : n \in FileSizes, sfx \in Suffixes}
Reads == {[raises |-> TRUE, frame |-> NoneFrame]} \cup
         {[raises |-> FALSE, frame |-> df] : df \in ParsedFrames}

NextLoader ==
    \/ \E f \in Files : ApplyValidateFile(f)
    \/ \E df \in ParsedFrames : ApplyValidateDataframe(df)
    \/ \E f \in Files, ty \in {"csv", "excel"}, z \in BOOLEAN, rd \in Reads,
          p \in {"none", "dates", "raise"} : ApplyLoadData(f, ty, z, rd, p)

SpecLoader == Init /\ [][NextLoader]_vars

\* ======================================================= utils/predictor.py
\* what the functions are given and hand back as data: None, a numpy array or
\* a pandas Series of len samples
NoData == [kind |-> "None", len |-> 0]
NdArray(n) == [kind |-> "ndarray", len |-> n]
Series(n) == [kind |-> "Series", len |-> n]

\* what a predictor function hands back: kind is "tuple" (prepare_data),
\* "model", "metrics", "None", or "raise" (an exception leaves the function);
\* fitted says model.fit was called
PredRet(kind) ==
    [kind |-> kind, X_train |-> NoData, X_test |-> NoData, y_train |-> NoData,
     y_test |-> NoData, extras |-> FALSE, model |-> "None", fitted |-> FALSE]
\* return None, None, None, None, None
FiveNone == PredRet("tuple")

\* try: ... except Exception: st.error(...); return <sentinel>
ExceptException(body, sentinel) ==
    IF body.kind = "raise" THEN [sentinel EXCEPT !.fitted = body.fitted] ELSE body

TaskTypes == {"regression", "classification"}

\* the dataframe prepare_data is given: its row count, the target column
\* (numeric, object, or absent from df), the nulls in it, and the feature
\* columns (numeric or object, holding some values or none, or absent)
PredFrame(rows, target, nulls, features) ==
    [isNone |-> FALSE, rows |-> rows, target |-> target, nulls |-> nulls,
     features |-> features]
NonePredFrame == [isNone |-> TRUE, rows |-> 0, target |-> "absent", nulls |-> 0,
                  features |-> "absent"]

\* rows prepare_data requires after dropping the rows with a null target
MinRows == 10
\* samples train_model requires
MinSamples == 10

\* train_test_split(X, y, test_size=0.2): n_test = ceil(0.2 * n), the rest is
\* the training part; an empty part raises ValueError
TrainTestSplit(n) ==
    LET n_test == (n + 4) \div 5
    IN  [ok |-> n - n_test > 0, n_train |-> n - n_test, n_test |-> n_test]

\* the body of prepare_data; lib = "raise" when train_test_split (a class too
\* small to stratify) or the scaler raises
PrepareDataBody(df, task_type, lib) ==
    LET n == IF df.nulls > 0 THEN df.rows - df.nulls ELSE df.rows
        split == TrainTestSplit(n)
        y(len) == IF task_type = "classification" THEN NdArray(len) ELSE Series(len)
    IN  IF task_type \notin TaskTypes THEN FiveNone
        ELSE IF df.isNone \/ df.target = "absent" THEN PredRet("raise")
        ELSE IF task_type = "regression" /\ df.target # "numeric" THEN FiveNone
        ELSE IF task_type = "classification" /\ df.target = "numeric" THEN FiveNone
        ELSE IF df.nulls > 0 /\ n < MinRows THEN FiveNone
        ELSE IF df.features = "absent" THEN PredRet("raise")
        ELSE IF n > 0 /\ df.features = "object_all_null" THEN PredRet("raise")
        ELSE IF n > 0 /\ df.features = "numeric_all_null" THEN FiveNone
        ELSE IF ~split.ok \/ lib = "raise" THEN PredRet("raise")
        ELSE [FiveNone EXCEPT !.X_train = NdArray(split.n_train),
                              !.X_test = NdArray(split.n_test),
                              !.y_train = y(split.n_train),
                              !.y_test = y(split.n_test),
                              !.extras = TRUE]

\* prepare_data(df, target_column, feature_columns, task_type)
PrepareData(df, task_type, lib) ==
    ExceptException(PrepareDataBody(df, task_type, lib), FiveNone)

\* (mutant) no minimum number of samples
TooFew_Never(X_train) == FALSE

\* len(X_train) < 10
TooFew(X_train) == X_train.len < MinSamples

\* the body of train_model; lib names what the library does: model.fit raises
\* ValueError or another exception, cross_val_score raises, or all goes well
TrainModelBody(X_train, y_train, task_type, lib) ==
    IF X_train.kind = "None" \/ y_train.kind = "None" THEN PredRet("None")
    ELSE IF X_train.kind # "ndarray" \/ y_train.kind # "ndarray" THEN PredRet("None")
    ELSE IF X_train.len # y_train.len THEN PredRet("None")
    ELSE IF TooFew(X_train) THEN PredRet("None")
    ELSE IF task_type \notin TaskTypes THEN PredRet("None")
    ELSE IF lib \in {"fit_ValueError", "fit_Exception"}
         THEN [PredRet("None") EXCEPT !.fitted = TRUE]
    ELSE [PredRet("model") EXCEPT !.model = task_type, !.fitted = TRUE]

\* train_model(X_train, y_train, task_type)
TrainModel(X_train, y_train, task_type, lib) ==
    ExceptException(TrainModelBody(X_train, y_train, task_type, lib), PredRet("None"))

\* the body of evaluate_model; lib = "predict_raise" / "metrics_raise" when
\* model.predict or a metric (or report[str(class_label)]) raises
EvaluateModelBody(model, X_test, y_test, task_type, lib) ==
    IF model = "None" \/ X_test.kind = "None" \/ y_test.kind = "None" THEN PredRet("None")
    ELSE IF lib \in {"predict_raise", "metrics_raise"} THEN PredRet("raise")
    ELSE PredRet("metrics")

\* evaluate_model(model, X_test, y_test, task_type)
EvaluateModel(model, X_test, y_test, task_type, lib) ==
    ExceptException(EvaluateModelBody(model, X_test, y_test, task_type, lib), PredRet("None"))

\* one predictor call: what was passed and what came back
PredCall(op, df, task_type, X, y, model, ret) ==
    [op |-> op, df |-> df, task_type |-> task_type, X |-> X, y |-> y, model |-> model,
     ret |-> ret, fitted |-> ret.fitted]

AfterPredCall(rec) ==
    /\ calls' = Append(calls, rec)
    /\ UNCHANGED <<poolVars, dbVars, frame, session>>

\* the pipeline starts with prepare_data
PredPrepare(df, task_type, lib) ==
    /\ df.nulls <= df.rows
    /\ AfterPredCall(PredCall("prepare_data", df, task_type, NoData, NoData, "None",
                              PrepareData(df, task_type, lib)))

PredTrain(X_train, y_train, task_type, lib) ==
    AfterPredCall(PredCall("train_model", NonePredFrame, task_type, X_train, y_train, "None",
                  TrainModel(X_train, y_train, task_type, lib)))

PredEvaluate(model, X_test, y_test, task_type, lib) ==
    AfterPredCall(PredCall("evaluate_model", NonePredFrame, task_type, X_test, y_test, model,
                  EvaluateModel(model, X_test, y_test, task_type, lib)))

\* samples in the data the predictor is given
MaxSamples == 14

PredFrames ==
    {NonePredFrame} \cup
    {PredFrame(rows, target, nulls, features) :
        rows \in 0..MaxSamples, target \in {"numeric", "object", "absent"},
        nulls \in 0..1,
        features \in {"numeric", "numeric_all_null", "object_all_null", "absent"}}
PredData == {NoData} \cup {NdArray(n) : n \in 0..MaxSamples} \cup {Series(n) : n \in 0..MaxSamples}
TaskArgs == TaskTypes \cup {"clustering"}
Models == TaskTypes \cup {"None"}

InitPredictor ==
    /\ InitPoolVars
    /\ InitDbVars
    /\ frame = NoneFrame
    /\ calls = <<>>
    /\ session = NoSession

FitOutcomes == {"ok", "fit_ValueError", "fit_Exception", "cv_raise"}
PredictOutcomes == {"ok", "predict_raise", "metrics_raise"}

\* each function called on its own with any arguments, and the pipeline:
\* train_model on what prepare_data returned, evaluate_model on the trained
\* model and the test part
NextPredictor ==
    \/ calls = <<>> /\ \E df \in PredFrames, t \in TaskArgs, lib \in {"ok", "raise"} :
                          PredPrepare(df, t, lib)
    \/ calls = <<>> /\ \E X \in PredData, y \in PredData, t \in TaskArgs, lib \in FitOutcomes :
                          PredTrain(X, y, t, lib)
    \/ calls = <<>> /\ \E m \in Models, X \in PredData, y \in PredData, t \in TaskArgs,
                          lib \in PredictOutcomes : PredEvaluate(m, X, y, t, lib)
    \/ /\ Len(calls) = 1 /\ calls[1].op = "prepare_data"
       /\ \E lib \in FitOutcomes :
             PredTrain(calls[1].ret.X_train, calls[1].ret.y_train, calls[1].task_type, lib)
    \/ /\ Len(calls) = 2 /\ calls[2].op = "train_model"
       /\ \E lib \in PredictOutcomes :
             PredEvaluate(calls[2].ret.model, calls[1].ret.X_test, calls[1].ret.y_test,
                          calls[1].task_type, lib)

SpecPredictor == InitPredictor /\ [][NextPredictor]_vars

\* ======================================================= claims
InPool(k) == \E i \in DOMAIN pool : pool[i] = k
Holders(k) == {c \in Callers : held[c] = k}

\* C1: a caller that is not inside the with-block holds no connection, and
\* every connection that is not held inside a with-block is back in the pool,
\* however the block was left (normally, by return, by an exception).
C1_ReleasedOnExit ==
    /\ \A c \in Callers : pc[c] # "body" => held[c] = NoConn
    /\ \A k \in Conns : InPool(k) \/ \E c \in Callers : pc[c] = "body" /\ held[c] = k

\* a with-block was left by an exception, nobody is inside one any more and
\* all five connections, handed round, are idle again
C1_Witness ==
    /\ lastExit = "raise"
    /\ \A c \in Callers : pc[c] = "idle"
    /\ Len(pool) = MaxConnections
    /\ pool # NewPool

\* C2: the connections are partitioned between the queue and the callers:
\* idle + held = max_connections, each connection is in the queue once or held
\* by exactly one caller, the queue never exceeds its capacity, and a caller
\* about to return its connection finds room in the queue.
C2_PoolPartition ==
    /\ Len(pool) + Cardinality({c \in Callers : held[c] # NoConn}) = MaxConnections
    /\ Len(pool) <= MaxConnections
    /\ \A k \in Conns :
          Cardinality({i \in DOMAIN pool : pool[i] = k}) + Cardinality(Holders(k)) = 1
    /\ \A c \in Callers : pc[c] = "body" => ~QueueFull(pool)

\* all five connections are held and a sixth caller waits in pool.get()
C2_Witness ==
    /\ QueueEmpty(pool)
    /\ Cardinality({c \in Callers : pc[c] = "body"}) = MaxConnections
    /\ \E c \in Callers : pc[c] = "get"


\* the session the next call gets
HeadSession == Session(Head(pool))

\* the sentinel a writing function returns on failure
WriteSentinel(op) == IF op = "execute_query" THEN "None" ELSE "False"

\* C3: when the underlying database operation raises, every database-layer
\* function returns its failure sentinel instead of raising: None for
\* execute_query, load_dataframe, get_table_info and get_last_update, False
\* for init_db, save_analysis_state, save_dataframe and delete_dataframe, {}
\* for load_analysis_state.
C3_FailureSentinels ==
    /\ last.dbRaised => last.kind = WriteSentinel(last.op)
    /\ \A t \in TableNames :
          /\ \A f \in 0..1 : LET o == LoadDataframe(HeadSession, t, f)
                             IN  o.dbRaised => o.ret.kind = "None"
          /\ \A f \in 0..4 : LET o == GetTableInfo(HeadSession, t, f)
                             IN  o.dbRaised => o.ret.kind = "None"
          /\ \A f \in 0..1 : LET o == GetLastUpdate(HeadSession, t, f)
                             IN  o.dbRaised => o.ret.kind = "None"
    /\ \A c \in Components, f \in 0..1 :
          LET o == LoadAnalysisState(HeadSession, c, f)
          IN  o.dbRaised => o.ret.kind = "state" /\ o.ret.state = EmptyDict

\* C4: after init_db and successful save_analysis_state calls,
\* load_analysis_state(c) returns the state_data of the most recent save for c,
\* and {} for a component that was never saved.
C4_LoadReturnsLatestSave ==
    /\ (last.op = "save_analysis_state" /\ last.ok) =>
          LoadAnalysisState(HeadSession, last.comp, 0).ret.state = last.data
    /\ \A c \in Components :
          (\A i \in DOMAIN db.states : db.states[i].component_name # c) =>
              LoadAnalysisState(HeadSession, c, 0).ret.state = EmptyDict


DeletedIsGone ==
    (last.op = "delete_dataframe" /\ last.ok) =>
        /\ ~db.tables[last.t].exists
        /\ ~db.meta[last.t].exists
        /\ GetTableInfo(HeadSession, last.t, 0).ret.kind = "None"
        /\ GetLastUpdate(HeadSession, last.t, 0).ret.kind = "None"
        /\ LoadDataframe(HeadSession, last.t, 0).ret.kind = "None"

\* C6 (as stated): after delete_dataframe(t) returns True neither table t nor
\* its metadata row exists, and deleting a table that does not exist returns
\* True and changes nothing.
C6_DeleteChangesNothingIfAbsent ==
    [][ /\ DeletedIsGone'
        /\ (last'.op = "delete_dataframe" /\ last'.ok /\ ~last'.existed) => db' = db
      ]_vars

\* C6 (amended): after delete_dataframe(t) returns True, whether or not table
\* t existed, neither table t nor its metadata row exists.
C6_DeleteLeavesNothing == DeletedIsGone

\* delete_dataframe has returned True for a table that did not exist
C6_Witness ==
    /\ last.op = "delete_dataframe" /\ last.ok /\ ~last.existed
    /\ db.metaT


\* the cells of the column a call names, in a frame
CallColumn(c, df) == ColumnOf(df, ColumnIndex(df, c.column))
HasColumn(c) == ColumnIndex(c.inp, c.column) # 0

\* C7: whenever handle_missing_values(df, column, method, value) returns
\* success=True, for drop, fill_value, fill_mean and fill_median and every
\* input column, the returned frame has no null value in that column.
C7_FilledHasNoNulls ==
    \A n \in DOMAIN calls :
        (calls[n].op = "handle_missing_values" /\ calls[n].ok) =>
            NullCount(CallColumn(calls[n], calls[n].out)) = 0

\* the subset of a call names only columns of the frame
SubsetExists(c) == 0 \notin SubsetIndexes(c.inp, c.subset)

\* the distinct combinations of values the rows take on the compared columns
DistinctKeys(c) ==
    {[i \in SubsetIndexes(c.inp, c.subset) |-> c.inp.rows[r][i]] : r \in DOMAIN c.inp.rows}
\* the rows that have no twin on the compared columns
SingleRows(c) ==
    {r \in DOMAIN c.inp.rows :
        \A j \in DOMAIN c.inp.rows :
            j # r => ~SameOn(c.inp, SubsetIndexes(c.inp, c.subset), r, j)}

\* C8 (as stated): remove_duplicates(df, subset, keep) returns success=True
\* and a frame whose row count is the input's row count minus the number of
\* duplicate rows df.duplicated() yields (what analyze_duplicates reports),
\* for keep = 'first', 'last' and False.
C8_RowCountMinusDuplicated ==
    \A n \in DOMAIN calls :
        (calls[n].op = "remove_duplicates" /\ SubsetExists(calls[n])) =>
            /\ calls[n].ok
            /\ Len(calls[n].out.rows) = Len(calls[n].inp.rows) - AnalyzeDuplicates(calls[n].inp)

\* C8 (as the code behaves): remove_duplicates returns success=True for
\* subset None or existing columns.  With keep 'first' or 'last' the result
\* has one row per distinct combination of the compared columns, which for
\* subset=None is the input's row count minus the count df.duplicated()
\* yields; with keep=False exactly the rows that have no twin remain.
C8_RowCountByKeep ==
    \A n \in DOMAIN calls :
        LET c == calls[n]
        IN  (c.op = "remove_duplicates" /\ SubsetExists(c)) =>
                /\ c.ok
                /\ c.arg \in {"first", "last"} =>
                      Len(c.out.rows) = Cardinality(DistinctKeys(c))
                /\ (c.arg \in {"first", "last"} /\ c.subset.none) =>
                      Len(c.out.rows) = Len(c.inp.rows) - AnalyzeDuplicates(c.inp)
                /\ c.arg = "False" =>
                      /\ Len(c.out.rows) = Cardinality(SingleRows(c))
                      /\ \A k \in DOMAIN c.out.rows :
                            \E r \in SingleRows(c) : c.inp.rows[r] = c.out.rows[k]

\* remove_duplicates(df, keep=False) on three rows of which two are equal:
\* duplicated() counts one, two rows are removed
C8_Witness ==
    \E n \in DOMAIN calls :
        /\ calls[n].op = "remove_duplicates" /\ calls[n].ok
        /\ calls[n].arg = "False" /\ calls[n].subset.none
        /\ Len(calls[n].inp.rows) = 3
        /\ AnalyzeDuplicates(calls[n].inp) = 1
        /\ Len(calls[n].out.rows) = 1

\* a value of a column of dtype dt that astype(new_type) can convert; the NaN
\* of a float64 column is a float64 already
ValueConvertible(cell, dt, new_type) ==
    IF IsNull(cell) THEN dt = "float64" /\ new_type = "float64"
    ELSE CastCell(cell, new_type).ok

\* C9: change_column_type(df, column, new_type) returns success=True and the
\* returned column has dtype new_type whenever the column's values are
\* convertible to new_type, a numeric column with a missing value converted
\* to float64 included.
C9_ConvertibleSucceeds ==
    \A n \in DOMAIN calls :
        LET c == calls[n]
        IN  ( /\ c.op = "change_column_type" /\ HasColumn(c)
              /\ \A r \in DOMAIN c.inp.rows :
                    ValueConvertible(CallColumn(c, c.inp)[r],
                                     c.inp.dtypes[ColumnIndex(c.inp, c.column)], c.arg) ) =>
                /\ c.ok
                /\ c.out.dtypes[ColumnIndex(c.out, c.column)] = DtypeName(c.arg)

\* the first call changes a null-free int64 column to float64 or str
FromInt64(c) ==
    /\ c.op = "change_column_type" /\ HasColumn(c)
    /\ c.inp.dtypes[ColumnIndex(c.inp, c.column)] = "int64"
    /\ ~AnyNull(CallColumn(c, c.inp))
    /\ c.arg \in {"float64", "str"}
\* the second call changes the same column back to int64
BackToInt64(c1, c2) == c2.column = c1.column /\ c2.arg = "int64"

\* an integer a float64 holds exactly: magnitude at most 2^53
ExactInFloat64(cell) == cell.hi = 0 \/ (cell.hi = 1 /\ cell.v = 0)

\* C10 (as stated): for a null-free column, int64 -> float64 -> int64 and
\* int64 -> str -> int64 succeed at both steps and restore the original
\* values and dtype.
C10_RoundTripRestores ==
    /\ (Len(calls) >= 1 /\ FromInt64(calls[1])) => calls[1].ok
    /\ (Len(calls) = 2 /\ FromInt64(calls[1]) /\ BackToInt64(calls[1], calls[2])) =>
          calls[2].ok /\ calls[2].out = calls[1].inp

\* C10 (as the code behaves): both steps succeed; int64 -> str -> int64
\* restores every column, int64 -> float64 -> int64 restores the columns
\* whose values have magnitude at most 2^53.
C10_RoundTripExact ==
    /\ (Len(calls) >= 1 /\ FromInt64(calls[1])) => calls[1].ok
    /\ (Len(calls) = 2 /\ FromInt64(calls[1]) /\ BackToInt64(calls[1], calls[2])) =>
          /\ calls[2].ok
          /\ calls[2].out.dtypes = calls[1].inp.dtypes
          /\ ( \/ calls[1].arg = "str"
               \/ \A r \in DOMAIN calls[1].inp.rows :
                     ExactInFloat64(CallColumn(calls[1], calls[1].inp)[r]) ) =>
                calls[2].out = calls[1].inp

\* a column holding 2^53 + 1 went int64 -> str -> int64 and came back as it was
C10_Witness ==
    /\ Len(calls) = 2 /\ FromInt64(calls[1]) /\ BackToInt64(calls[1], calls[2])
    /\ calls[1].arg = "str" /\ calls[2].ok
    /\ \E r \in DOMAIN calls[1].inp.rows : CallColumn(calls[1], calls[1].inp)[r] = BigInt(1)
    /\ calls[2].out = calls[1].inp


\* the column an analyzer call names holds at least one number
HasNumbers(c) ==
    /\ ColumnIndex(c.inp, c.column) # 0
    /\ \A r \in DOMAIN c.inp.rows : IsNull(CallColumn(c, c.inp)[r]) \/ IsNumber(CallColumn(c, c.inp)[r])
    /\ \E r \in DOMAIN c.inp.rows : IsNumber(CallColumn(c, c.inp)[r])

\* the bounds of a call are the IQR bounds of its column's quartiles, ordered
\* around them, and the values outside them are what it counted
StandardBounds(c) ==
    LET col == CallColumn(c, c.inp)
        q1 == Quantile(col, 1)
        q3 == Quantile(col, 3)
    IN  /\ c.res.kind = "bounds"
        /\ ~c.res.lower.nan /\ ~c.res.upper.nan
        /\ 2 * c.res.lower.e = 2 * q1.e - 3 * (q3.e - q1.e)
        /\ 2 * c.res.upper.e = 2 * q3.e + 3 * (q3.e - q1.e)
        /\ c.res.lower.e <= q1.e /\ q1.e <= q3.e /\ q3.e <= c.res.upper.e
        /\ c.res.outliers =
              Cardinality({r \in DOMAIN col :
                              /\ IsNumber(col[r])
                              /\ 8 * col[r].v < c.res.lower.e \/ 8 * col[r].v > c.res.upper.e})

\* C11 (as stated): analyze_outliers returns lower = Q1 - 1.5*IQR and
\* upper = Q3 + 1.5*IQR with lower <= Q1 <= Q3 <= upper, counts exactly the
\* values strictly outside them, and returns (None, None) without computing
\* anything when column is None.
C11_IqrBounds ==
    \A n \in DOMAIN calls :
        calls[n].op = "analyze_outliers" =>
            IF calls[n].column = "None"
            THEN calls[n].res.kind = "none" /\ ~calls[n].res.computed
            ELSE ( /\ ColumnIndex(calls[n].inp, calls[n].column) # 0
                   /\ calls[n].inp.dtypes[ColumnIndex(calls[n].inp, calls[n].column)] = "float64" )
                    => StandardBounds(calls[n])

\* C11 (as the code behaves): for a column holding at least one number the
\* returned bounds are the standard IQR bounds, ordered around the quartiles,
\* and the outliers counted are exactly the values strictly outside them; a
\* numeric column holding no number gives NaN bounds and no outlier, or
\* raises when the frame has no rows; column None gives (None, None) with
\* nothing computed.
C11_IqrBoundsOfNumbers ==
    \A n \in DOMAIN calls :
        LET c == calls[n]
        IN  c.op = "analyze_outliers" =>
              /\ c.column = "None" => c.res.kind = "none" /\ ~c.res.computed
              /\ (c.column # "None" /\ HasNumbers(c)) => StandardBounds(c)
              /\ ( /\ c.column # "None" /\ ColumnIndex(c.inp, c.column) # 0
                   /\ \A r \in DOMAIN c.inp.rows : IsNull(CallColumn(c, c.inp)[r]) ) =>
                    IF Len(c.inp.rows) = 0 THEN c.res.kind = "raise"
                    ELSE /\ c.res.kind = "bounds"
                         /\ c.res.lower.nan /\ c.res.upper.nan /\ c.res.outliers = 0

\* analyze_outliers on 1, 1, 1, 2: Q1 = 1, Q3 = 1.25, bounds 0.625 and
\* 1.625, one outlier
C11_Witness ==
    \E n \in DOMAIN calls :
        /\ calls[n].op = "analyze_outliers" /\ calls[n].res.kind = "bounds"
        /\ calls[n].res.lower = Eighths(5) /\ calls[n].res.upper = Eighths(13)
        /\ calls[n].res.outliers = 1


\* the suffixes whose lower-cased form is .csv, .xlsx, .xls, .gz or .zip
ExtensionAllowed(sfx) ==
    sfx \in {".csv", ".CSV", ".xlsx", ".Xlsx", ".xls", ".gz", ".GZ", ".zip"}

\* C12: validate_file returns True exactly when the file is not None, its
\* size is at most 100*1024*1024 bytes and its lower-cased extension is one
\* of .csv, .xlsx, .xls, .gz, .zip; the size is checked before the extension.
C12_ValidateFile ==
    \A n \in DOMAIN calls :
        LET c == calls[n]
        IN  c.op = "validate_file" =>
              /\ c.res.ok <=> ( /\ ~c.file.isNone
                                /\ c.file.size <= 100 * 1024 * 1024
                                /\ ExtensionAllowed(c.file.suffix) )
              /\ (~c.file.isNone /\ c.file.size > 100 * 1024 * 1024) =>
                    c.res.msg = "too big"

\* a file of exactly 100 MB named data.CSV was accepted
C12_Witness ==
    \E n \in DOMAIN calls :
        /\ calls[n].op = "validate_file" /\ calls[n].res.ok
        /\ calls[n].file.size = MaxFileSize /\ calls[n].file.suffix = ".CSV"

\* the checks of validate_dataframe, stated on the frame
FrameNonEmpty(df) == Len(df.columns) > 0 /\ Len(df.rows) > 0
NamesUnique(df) ==
    Cardinality({df.columns[i] : i \in DOMAIN df.columns}) = Len(df.columns)

\* C13: validate_dataframe returns (True, "") exactly when the frame is
\* non-empty, has at most 1000 columns and no repeated column name; otherwise
\* (False, message) with the message of the first failing check in the order
\* empty, too many columns, duplicate names.
C13_ValidateDataframe ==
    \A n \in DOMAIN calls :
        LET c == calls[n]
        IN  c.op = "validate_dataframe" =>
              /\ c.res.ok <=> ( /\ FrameNonEmpty(c.df)
                                /\ Len(c.df.columns) <= 1000
                                /\ NamesUnique(c.df) )
              /\ c.res.ok => c.res.msg = ""
              /\ ~c.res.ok =>
                    c.res.msg = IF ~FrameNonEmpty(c.df) THEN "empty"
                                ELSE IF Len(c.df.columns) > 1000 THEN "too many columns"
                                ELSE "duplicate names"

\* a frame of 1001 columns with a repeated name was rejected for its width
C13_Witness ==
    \E n \in DOMAIN calls :
        /\ calls[n].op = "validate_dataframe" /\ ~calls[n].res.ok
        /\ Len(calls[n].df.columns) = MaxColumns + 1 /\ ~NamesUnique(calls[n].df)
        /\ calls[n].res.msg = "too many columns"

\* C14: load_data never raises; it returns None whenever validate_file
\* rejects the file, reading raises (a ZIP without a CSV member included) or
\* validate_dataframe rejects what was read; a frame it returns is non-empty,
\* has at most 1000 columns and unique column names.
C14_LoadDataNeverRaises ==
    \A n \in DOMAIN calls :
        LET c == calls[n]
        IN  c.op = "load_data" =>
              /\ c.res.kind \in {"None", "frame"}
              /\ ( \/ c.file.isNone \/ c.file.size > 100 * 1024 * 1024
                   \/ ~ExtensionAllowed(c.file.suffix)
                   \/ c.read.raises
                   \/ (c.file.suffix = ".zip" /\ ~c.zipHasCsv)
                   \/ ~(FrameNonEmpty(c.read.frame) /\ Len(c.read.frame.columns) <= 1000
                         /\ NamesUnique(c.read.frame)) ) => c.res.kind = "None"
              /\ c.res.kind = "frame" =>
                    /\ FrameNonEmpty(c.res.frame)
                    /\ Len(c.res.frame.columns) <= 1000
                    /\ NamesUnique(c.res.frame)
                    /\ c.res.frame.columns = c.read.frame.columns

\* a valid ZIP upload without a CSV member came back as None
C14_Witness ==
    \E n \in DOMAIN calls :
        /\ calls[n].op = "load_data" /\ calls[n].res.kind = "None"
        /\ calls[n].file.suffix = ".zip" /\ calls[n].file.size = MaxFileSize
        /\ ~calls[n].zipHasCsv /\ ~calls[n].read.raises


ProcessorOps ==
    {"change_column_type", "handle_missing_values", "remove_duplicates", "delete_data",
     "add_computed_column"}

\* the failures the claim names: an unknown column, an unknown method, a value
\* that cannot be converted, an invalid formula
NamedFailure(c) ==
    \/ c.op \in {"change_column_type", "handle_missing_values"} /\ c.column = "no_such_column"
    \/ c.op = "handle_missing_values" /\ c.arg \notin Methods
    \/ /\ c.op = "change_column_type" /\ HasColumn(c) /\ c.arg = "int64"
       /\ \E r \in DOMAIN c.inp.rows : CallColumn(c, c.inp)[r].k = "text"
    \/ c.op = "add_computed_column" /\ (c.value.v = 0 \/ c.arg = "no_such_column")

\* C15: no data_processor operation raises: each call returns (result, True)
\* or, on any failure (unknown column, unknown method, unconvertible value,
\* invalid formula), (the input frame with its contents unchanged, False).
C15_FailureReturnsInput ==
    \A n \in DOMAIN calls :
        LET c == calls[n]
        IN  c.op \in ProcessorOps =>
              /\ c.ok => ~c.out.isNone
              /\ ~c.ok => c.out = c.inp /\ c.passed = c.inp
              /\ NamedFailure(c) => ~c.ok

\* change_column_type could not convert a text to int64 and handed back the
\* frame it was given
C15_Witness ==
    \E n \in DOMAIN calls :
        /\ calls[n].op = "change_column_type" /\ calls[n].column = "text"
        /\ calls[n].arg = "int64" /\ ~calls[n].ok
        /\ \A r \in DOMAIN calls[n].inp.rows : calls[n].inp.rows[r][2].k = "text"
        /\ Len(calls[n].inp.rows) = 2
        /\ calls[n].out = calls[n].inp


C17_ReturnsStatistics ==
    \A i \in DOMAIN calls :
        LET c == calls[i]
        IN  (c.op = "analyze_distribution" /\ c.lib = "ok" /\ HasNumbers(c)) =>
              /\ c.res.kind = "dict"
              /\ {"Srednee", "Mediana"} \subseteq c.res.keys


\* C18: the table analysis_state holds at most one row per component_name: a
\* save for a component replaces that component's row.
C18_OneRowPerComponent ==
    \A i, j \in DOMAIN db.states :
        db.states[i].component_name = db.states[j].component_name => i = j


\* C19: main.save_current_state writes only when at least 1 s has passed
\* since the session's last_save_time and otherwise returns without writing;
\* last_save_time advances only when save_analysis_state succeeds, to the
\* time of that call; so two successful saves of one session are never less
\* than 1 s apart.
C19_SaveThrottle ==
    [][ LET called == session.pc = "ui" /\ pool' # pool
            succeeded == called /\ last'.ok
        IN  /\ called => session.clock - session.last_save_time >= TicksPerSecond
            /\ (session.pc = "ui" /\ ~called) => UNCHANGED <<db, pending>>
            /\ (session.started /\ session'.started
                    /\ session'.last_save_time # session.last_save_time) =>
                  succeeded /\ session'.last_save_time = session.clock
            /\ succeeded => session'.last_save_time = session.clock
            /\ \A i \in DOMAIN session'.persists : \A j \in DOMAIN session'.persists :
                  i < j => session'.persists[j] - session'.persists[i] >= TicksPerSecond
      ]_vars

\* two successful saves of one session, exactly 1 s apart
C19_Witness ==
    /\ Len(session.persists) = 2
    /\ session.persists[2] - session.persists[1] = TicksPerSecond
    /\ session.last_save_time = session.persists[2]

\* C20: the saved state is loaded only on the session's first run: once a
\* run of main() has called load_saved_state, no rerun of the session calls
\* it again.
C20_LoadOnFirstRunOnly ==
    Cardinality(session.loadRuns) <= 1


\* the session's frame is not stored: 'df' is not in st.session_state
NoSessionFrame == frame.isNone

\* C21: after 'clear database' succeeded the session holds no dataframe and
\* the database no current_data table, until the user uploads a file or loads
\* the test data again; when delete_dataframe failed the session's dataframe
\* is kept.
C21_ClearedStaysCleared ==
    /\ session.cleared => NoSessionFrame /\ ~db.tables["current_data"].exists
    /\ (session.event = "clear" /\ session.pc = "idle" /\ ~session.eventOk) => ~NoSessionFrame

\* C24: the result of a successful preprocessing action stays
\* st.session_state['df'] on every later rerun until the user uploads a file,
\* loads the test data, applies another action or clears the database, also
\* while the uploaded file is still selected in the uploader.
C24_ProcessedFrameStays ==
    ~session.processed.isNone => frame = session.processed


\* C22 (as stated): a caller blocked in get_connection eventually obtains a
\* connection, provided every holder's with-block terminates.
C22_EveryCallerServed ==
    \A c \in Callers : (pc[c] = "get") ~> (pc[c] = "body")

\* C22 (as the code behaves): the pool cannot deadlock: as long as callers
\* keep being blocked in get_connection, connections keep being handed out,
\* provided every holder's with-block terminates; which caller gets one is
\* not determined, and a caller can be overtaken.
C22_NoDeadlock ==
    []<>(\E c \in Callers : pc[c] = "get") => []<><<\E c \in Callers : Acquire(c)>>_vars

\* a caller waits in pool.get() while connections that were already handed
\* round are all held again
C22_Witness ==
    /\ QueueEmpty(pool)
    /\ lastExit # "none"
    /\ \E c \in Callers : pc[c] = "get" /\ held[c] = NoConn
    /\ \A k \in Conns : \E c \in Callers : pc[c] = "body" /\ held[c] = k

\* the fill methods of handle_missing_values
FillMethods == {"fill_value", "fill_mean", "fill_median"}

\* the row positions of the call's input whose target cell is not null, in
\* row order
NonNullRows(c) ==
    SelectSeq([r \in DOMAIN c.inp.rows |-> r],
              LAMBDA r : ~IsNull(c.inp.rows[r][ColumnIndex(c.inp, c.column)]))

\* the result of a fill: the input's rows in their order, every other column
\* as it was, the target column's non-null values as they were
FilledFromInput(c) ==
    LET i == ColumnIndex(c.inp, c.column)
    IN  /\ c.out.columns = c.inp.columns
        /\ c.out.index = c.inp.index
        /\ DOMAIN c.out.rows = DOMAIN c.inp.rows
        /\ \A j \in DOMAIN c.inp.columns \ {i} :
              /\ c.out.dtypes[j] = c.inp.dtypes[j]
              /\ ColumnOf(c.out, j) = ColumnOf(c.inp, j)
        /\ \A r \in DOMAIN c.inp.rows :
              ~IsNull(c.inp.rows[r][i]) => c.out.rows[r][i] = c.inp.rows[r][i]

\* the result of a drop: exactly the input's rows with a non-null target
\* cell, in their order and under their index labels
DroppedFromInput(c) ==
    LET ix == NonNullRows(c)
    IN  /\ c.out.columns = c.inp.columns
        /\ c.out.dtypes = c.inp.dtypes
        /\ c.out.rows = [k \in DOMAIN ix |-> c.inp.rows[ix[k]]]
        /\ c.out.index = [k \in DOMAIN ix |-> c.inp.index[ix[k]]]

\* C26: handle_missing_values never modifies the dataframe passed in; for
\* fill_value, fill_mean and fill_median the result has the same rows in the
\* same order, every other column identical and the target column's non-null
\* values unchanged; for drop the result is exactly the input rows whose
\* target column is non-null, in their original order.
C26_InputUntouched ==
    \A n \in DOMAIN calls :
        calls[n].op = "handle_missing_values" =>
            /\ calls[n].passed = calls[n].inp
            /\ (calls[n].ok /\ calls[n].arg \in FillMethods) => FilledFromInput(calls[n])
            /\ (calls[n].ok /\ calls[n].arg = "drop") => DroppedFromInput(calls[n])
            /\ ~calls[n].ok => calls[n].out = calls[n].inp

\* a fill wrote into a column that also holds a value
C26_Witness ==
    \E n \in DOMAIN calls :
        LET c == calls[n]
        IN  /\ c.op = "handle_missing_values" /\ c.ok /\ c.arg \in FillMethods
            /\ c.out # c.inp
            /\ NonNullRows(c) # <<>>
            /\ frame = c.out

\* the last call was save_dataframe and left before its with-block: df was
\* None or empty
EmptySave == last.op = "save_dataframe" /\ ~last.ok /\ ~last.dbRaised

\* C25: save_dataframe called with df = None or an empty dataframe returns
\* False (without acquiring a pool connection, the stored table and its
\* metadata row unchanged).
C25_EmptySaveReturnsFalse ==
    EmptySave => last.kind = "False"

\* C23: a connection is never returned to the pool with an open, uncommitted
\* transaction: every database-layer operation that writes (execute_query
\* with fetch=True and operations that fail part-way included) commits or
\* rolls back before release.
C23_PooledConnectionsClean ==
    \A i \in DOMAIN pool : ~pending[pool[i]].open

Present(d) == d.kind # "None"

\* the conditions under which the claim lets train_model fit
MayFit(c) ==
    /\ Present(c.X) /\ Present(c.y)
    /\ c.X.len = c.y.len
    /\ c.X.len >= 10
    /\ c.task_type \in {"regression", "classification"}

\* prepare_data's own validation rejects the call: the task type, the target's
\* dtype for the task, or fewer than 10 rows left after dropping null targets
PrepareRejects(c) ==
    \/ c.task_type \notin {"regression", "classification"}
    \/ /\ ~c.df.isNone /\ c.df.target # "absent"
       /\ \/ c.task_type = "regression" /\ c.df.target = "object"
          \/ c.task_type = "classification" /\ c.df.target = "numeric"
          \/ c.df.nulls > 0 /\ c.df.rows - c.df.nulls < 10

\* C27: a model is fitted only when the training data is present, X_train
\* and y_train have equal length, there are at least 10 training samples and
\* task_type is 'regression' or 'classification'; otherwise train_model
\* returns None without fitting; prepare_data reports its own validation
\* failures as a tuple of five None values; evaluate_model given a None model
\* or None data returns None; none of the three raises.
C27_FitsOnlyValidData ==
    \A n \in DOMAIN calls :
        LET c == calls[n]
        IN  /\ c.ret.kind # "raise"
            /\ c.op = "train_model" =>
                  /\ c.fitted => MayFit(c)
                  /\ ~MayFit(c) => c.ret.kind = "None" /\ ~c.fitted
            /\ (c.op = "prepare_data" /\ PrepareRejects(c)) => c.ret = FiveNone
            /\ ( /\ c.op = "evaluate_model"
                 /\ (c.model = "None" \/ ~Present(c.X) \/ ~Present(c.y)) ) =>
                  c.ret.kind = "None"

\* prepare_data split 13 rows, train_model fitted on the 10 training samples
\* and evaluate_model returned the metrics
C27_Witness ==
    /\ Len(calls) = 3
    /\ calls[1].op = "prepare_data" /\ calls[1].df.rows = 13 /\ calls[1].ret.extras
    /\ calls[2].op = "train_model" /\ calls[2].fitted /\ calls[2].X.len = 10
    /\ calls[2].ret.kind = "model"
    /\ calls[3].op = "evaluate_model" /\ calls[3].ret.kind = "metrics"

====
